---------------------------- MODULE MCStructures ----------------------------
(***************************************************************************)
(* Structures for TLC:     every text of at most three tokens, the         *)
(* documents of the grammar up to MaxTokens with words as keys and strings *)
(* as values, and what one wrong or missing token makes of those.          *)
(***************************************************************************)
EXTENDS Structures

Tokens == {"{", "}", "[", "]", ",", ":", "string", "word",
           "number", "broken", "comment", "junk"}

IsKey(t, i) == i < Len(t) /\ t[i + 1] = ":"

Short == UNION {[1..n -> Tokens] : n \in 0..3}
WellFormed ==
    {t \in {d.text : d \in Documents} :
        Len(t) > 2 /\ \A i \in DOMAIN t : t[i] = IF IsKey(t, i) THEN "word"
                                                 ELSE IF t[i] = "word" THEN "string" ELSE t[i]}
OneTokenOff ==
    UNION {{RemoveAt(t, i) : i \in DOMAIN t}
           \cup {[t EXCEPT ![i] = k] : i \in DOMAIN t, k \in Tokens} : t \in WellFormed}

MCTexts == Short \cup WellFormed \cup OneTokenOff
=============================================================================
