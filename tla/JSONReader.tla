----------------------------- MODULE JSONReader -----------------------------
(***************************************************************************)
(* JSONReader: a pull parser its caller drives value by value, scopes kept *)
(* in a bit stack.  A text is a sequence of tokens, whitespace and closed  *)
(* comments dropped:                                                       *)
(*   "{" "}" "[" "]" "," ":"                                               *)
(*   "string"   a quoted string     "word"  an identifier                  *)
(*   "number"   a number, whose parser is not implemented                  *)
(*   "broken"   a string with a bad escape or character, or never closed   *)
(*   "comment"  a comment never closed                                     *)
(*   "junk"     any other character                                        *)
(* The caller makes the one call each state allows (LibraryManifestLoader  *)
(* asks isEndOfObject and isEndOfArray, which tell those states apart).    *)
(***************************************************************************)
EXTENDS Naturals, Sequences

CONSTANTS Texts,      \* the documents
          MaxNesting, \* bits of the scope stack: 64 in the code
          MaxTokens   \* bound: the longest text

VARIABLES text,         \* the document
          position,     \* the token charsReader stands on
          readerState,  \* JSONReader::State, "Failed" once errorCode is set,
                        \* "Asserted" when the program stopped
          scopes,       \* nestingStackBits: level -> TRUE for an array
          depth,        \* nestingStackSize
          events        \* what the caller has been told

readerVars == <<text, position, readerState, scopes, depth, events>>

\* peek() beyond the last token.
EndOfStream == "end"
TokenAt(p) == IF p <= Len(text) THEN text[p] ELSE EndOfStream

\* skipWhitespaceAndComments fails on a comment that is never closed.
Skips(p) == TokenAt(p) # "comment"

ReaderInit ==
    /\ text \in Texts
    /\ position = 1
    /\ readerState = "Undefined"
    /\ scopes \in [0..MaxNesting - 1 -> BOOLEAN]
    /\ depth = 0
    /\ events = <<>>

\* The next call is refused with an error code.
Refused ==
    /\ readerState' = "Failed"
    /\ UNCHANGED <<text, position, scopes, depth, events>>

Told(event) ==
    events' = IF readerState' = "Failed" THEN events ELSE Append(events, event)

OpenDocument ==
    /\ readerState = "Undefined"
    /\ readerState' = IF Skips(1) THEN "PendingValue" ELSE "Failed"
    /\ UNCHANGED <<text, position, scopes, depth, events>>

\* consumeCommaAndSkipToNextElementOrPrepareScopeClose, standing at p inside
\* nesting scopes: the next state and how many tokens are consumed.
AfterValue(p, nesting) ==
    LET comma == TokenAt(p) = ","
        q == IF comma THEN p + 1 ELSE p
        array == scopes[nesting - 1]
        To(state) == [state |-> state, position |-> q]
    IN IF ~Skips(p) THEN To("Failed")
       ELSE IF nesting = 0
       THEN To(IF TokenAt(p) = EndOfStream THEN "EndOfDocumentReached" ELSE "Failed")
       ELSE IF TokenAt(p) = EndOfStream \/ ~Skips(q) THEN To("Failed")
       ELSE IF TokenAt(q) = (IF array THEN "]" ELSE "}")
       THEN To(IF array THEN "PendingArrayScopeEnd" ELSE "PendingObjectScopeEnd")
       ELSE IF comma THEN To(IF array THEN "PendingValue" ELSE "PendingKey")
       ELSE To("Failed")

Continue(p, nesting) ==
    LET after == AfterValue(p, nesting)
    IN readerState' = after.state /\ position' = after.position

ReadKey ==
    /\ readerState = "PendingKey"
    /\ IF /\ TokenAt(position) \in {"string", "word"}
          /\ TokenAt(position + 1) = ":"
          /\ Skips(position + 2)
       THEN /\ readerState' = "PendingValue"
            /\ position' = position + 2
            /\ Told("key")
            /\ UNCHANGED <<text, scopes, depth>>
       ELSE Refused

\* parseNumber is not implemented: the program stops.
ReadValue ==
    LET token == TokenAt(position)
    IN /\ readerState = "PendingValue"
       /\ \/ /\ token \in {"{", "["}
             /\ readerState' = IF token = "{" THEN "PendingObjectScopeBegin"
                               ELSE "PendingArrayScopeBegin"
             /\ UNCHANGED <<text, position, scopes, depth, events>>
          \/ /\ token \in {"string", "word"}
             /\ Continue(position + 1, depth)
             /\ Told("value")
             /\ UNCHANGED <<text, scopes, depth>>
          \/ /\ token = "number"
             /\ readerState' = "Asserted"
             /\ UNCHANGED <<text, position, scopes, depth, events>>
          \/ /\ token \notin {"{", "[", "string", "word", "number"}
             /\ Refused

\* A mutant: an object takes the bit as it finds it.
Entered_NotReset(array) == [scopes EXCEPT ![depth] = array \/ @]

\* The bit of the new scope: set for an array, reset for an object.
Entered(array) == [scopes EXCEPT ![depth] = array]

\* openObject and openArray.
OpenScope(array) ==
    LET close == IF array THEN "]" ELSE "}"
    IN /\ readerState = IF array THEN "PendingArrayScopeBegin"
                        ELSE "PendingObjectScopeBegin"
       /\ IF depth >= MaxNesting THEN Refused
          ELSE /\ scopes' = Entered(array)
               /\ depth' = depth + 1
               /\ position' = position + 1
               /\ readerState' =
                    IF ~Skips(position + 1) THEN "Failed"
                    ELSE IF TokenAt(position + 1) = close
                    THEN IF array THEN "PendingArrayScopeEnd" ELSE "PendingObjectScopeEnd"
                    ELSE IF array THEN "PendingValue" ELSE "PendingKey"
               /\ Told(IF array THEN "array" ELSE "object")
               /\ UNCHANGED text

\* closeObject and closeArray; that the innermost scope is of that kind is
\* asserted.
CloseScope(array) ==
    /\ readerState = IF array THEN "PendingArrayScopeEnd" ELSE "PendingObjectScopeEnd"
    /\ IF depth > 0 /\ scopes[depth - 1] = array
       THEN /\ depth' = depth - 1
            /\ Continue(position + 1, depth - 1)
            /\ Told("close")
            /\ UNCHANGED <<text, scopes>>
       ELSE /\ readerState' = "Asserted"
            /\ UNCHANGED <<text, position, scopes, depth, events>>

ReaderNext ==
    \/ OpenDocument
    \/ ReadKey
    \/ ReadValue
    \/ \E array \in BOOLEAN : OpenScope(array) \/ CloseScope(array)

-----------------------------------------------------------------------------
\* The documents the reader is meant for, independently of its states: the
\* texts of n tokens that are one value nesting at most d scopes, with what
\* the caller is told of them.  A comma may follow the last element.

Pair(tokens, told) == [text |-> tokens, events |-> told]
Join(a, b) == Pair(a.text \o b.text, a.events \o b.events)
Joined(A, B) == {Join(a, b) : a \in A, b \in B}
Scope(first, inner, last, name) ==
    Joined({Pair(<<first>>, <<name>>)}, Joined(inner, {Pair(<<last>>, <<"close">>)}))

\* list[n]: elements or members of n tokens in all, one given by item[n].
ListOf(item) ==
    LET list[n \in 0..MaxTokens] ==
            IF n = 0 THEN {Pair(<<>>, <<>>)}
            ELSE item[n] \cup
                 UNION {Joined(item[k], Joined({Pair(<<",">>, <<>>)}, list[n - k - 1])) :
                        k \in 1..n - 1}
    IN list

Key == Joined({Pair(<<k>>, <<"key">>) : k \in {"string", "word"}},
              {Pair(<<":">>, <<>>)})

Values[d \in 0..MaxNesting] ==
    LET inner == Values[d - 1]
        member == [n \in 1..MaxTokens |-> IF n < 3 THEN {} ELSE Joined(Key, inner[n - 2])]
        elements == ListOf(inner)
        members == ListOf(member)
    IN [n \in 1..MaxTokens |->
          IF n = 1 THEN {Pair(<<v>>, <<"value">>) : v \in {"string", "word"}}
          ELSE IF d = 0 THEN {}
          ELSE Scope("[", elements[n - 2], "]", "array")
               \cup Scope("{", members[n - 2], "}", "object")]

Documents == UNION {Values[MaxNesting][n] : n \in 1..MaxTokens}

(***************************************************************************)
(* The reader reaches the end of a document exactly for the texts of the   *)
(* grammar, telling its caller the structure the text has, and refuses     *)
(* every other text; no assertion about the scope stack fails, whatever    *)
(* its uninitialized bits held and whatever scopes came before on a level. *)
(* A number stops the program: its parser is an assertion.                 *)
(***************************************************************************)
ReadsGrammar ==
    /\ readerState = "EndOfDocumentReached" => Pair(text, events) \in Documents
    /\ readerState = "Failed" => \A d \in Documents : d.text # text
    /\ readerState = "Asserted" => TokenAt(position) = "number"
=============================================================================
