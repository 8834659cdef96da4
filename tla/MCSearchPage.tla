---------------------------- MODULE MCSearchPage ----------------------------
(* Two pages, four texts and two runs of the script, for TLC.              *)
EXTENDS SearchPage, TLC

CONSTANTS
    plain, secret, longer, blank,   \* texts; secret holds a marked word
    word, comma                     \* queries

MCTexts == {plain, secret, longer, blank}

\* The longer text begins as the secret one does.
MCPrepared ==
    plain :> plain @@ secret :> secret @@ longer :> secret @@ blank :> None

MCQueries == {Empty, word, comma}

MCMatches ==
    Empty :> {} @@ word :> {plain, longer} @@ comma :> {plain, secret, longer}

MCReads == Empty :> Empty @@ word :> word @@ comma :> word

MCSimilarity == [x \in MCQueries |-> plain :> 1 @@ secret :> 2]

\* Three scenes: two index runs while a page changes; one search while a page
\* changes and a run ends; a session in depth on a library that stays.
MCInit ==
    /\ Init
    /\ \/ actions = MaxActions /\ runs = 0 /\ changes = MaxChanges - 1
       \/ /\ actions = MaxActions - 1 /\ changes = MaxChanges - 1
          /\ runs = IF pages = [p \in Pages |-> plain] THEN MaxRuns - 1 ELSE MaxRuns
       \/ /\ actions = 0 /\ runs = MaxRuns /\ changes = MaxChanges
          /\ pages = [p \in Pages |-> plain]
          /\ stored \in {[p \in Pages |-> None],
                         [p \in Pages |-> IF p = Filtered THEN None ELSE VectorOf(plain)]}

MCSpec == MCInit /\ [][Next]_vars
=============================================================================
