---------------------------- MODULE SearchService ----------------------------
(***************************************************************************)
(* What a search promises, with no threads, tasks, queue and files.  The   *)
(* documents found are all sent for their scores.  They become answers one *)
(* by one, those of earlier queries before those of later ones, each once. *)
(* The search does not wait for them: it takes the answers it finds,       *)
(* scores every one of them, shows them and is over; what arrives later    *)
(* shows up in a later query if all queries share one list.                *)
(***************************************************************************)
EXTENDS Naturals

CONSTANTS
  Docs,                \* the documents
  NumQueries           \* bound: how many queries are made

VARIABLES
  shared,              \* whether one list of answers serves all queries
  query,               \* the number of the latest query
  phase,               \* where it is
  todo,                \* the documents found and not sent yet
  underway,            \* the documents sent, each with its query
  answers,             \* the answers there are, of all queries
  unscored             \* the answers taken to be scored

vars == <<shared, query, phase, todo, underway, answers, unscored>>

None == 0

\* What is known of a document found, of an answer, and of one with a score:
\* a score is known by the query whose similarity it is.
Finding(d, k)   == [doc |-> d, from |-> k]
FindingOf(a)    == Finding(a.doc, a.from)
Answer(x, mark) == [doc |-> x.doc, from |-> x.from, score |-> mark]

\* The answers in the list of the query.
Listed == {a \in answers : shared \/ a.from = query}

Init ==
  /\ shared \in BOOLEAN
  /\ query = 0
  /\ phase = "idle"
  /\ todo = {} /\ underway = {}
  /\ answers = {} /\ unscored = {}

Ask(found) ==
  /\ phase = "idle"
  /\ query < NumQueries
  /\ query' = query + 1
  /\ todo' = found
  /\ phase' = IF found = {} THEN "idle" ELSE "asked"
  /\ UNCHANGED <<shared, underway, answers, unscored>>

\* The list is cleared.
Begin ==
  /\ phase = "asked"
  /\ answers' = answers \ Listed
  /\ phase' = "measuring"
  /\ UNCHANGED <<shared, query, todo, underway, unscored>>

Send(d) ==
  /\ phase = "measuring"
  /\ d \in todo
  /\ todo' = todo \ {d}
  /\ underway' = underway \cup {Finding(d, query)}
  /\ UNCHANGED <<shared, query, phase, answers, unscored>>

\* At any time: nothing of an earlier query is underway any more.
Arrive(x) ==
  /\ phase # "broken"
  /\ x \in underway
  /\ \A y \in underway : x.from <= y.from
  /\ underway' = underway \ {x}
  /\ answers' = answers \cup {Answer(x, None)}
  /\ UNCHANGED <<shared, query, phase, todo, unscored>>

\* When all have been sent, the answers that are there are taken.
Take ==
  /\ phase = "measuring"
  /\ todo = {}
  /\ unscored' = {FindingOf(a) : a \in Listed}
  /\ phase' = IF Listed = {} THEN "idle" ELSE "scoring"
  /\ UNCHANGED <<shared, query, todo, underway, answers>>

\* The score is of the query the answer is for; if that was an earlier one it may
\* be of a query since.
Score(x, k) ==
  /\ phase = "scoring"
  /\ x \in unscored
  /\ k \in x.from .. query
  /\ answers' = {a \in answers : FindingOf(a) # x} \cup {Answer(x, k)}
  /\ unscored' = unscored \ {x}
  /\ UNCHANGED <<shared, query, phase, todo, underway>>

\* An answer of an earlier query cannot be scored while a later one for the same
\* document is arriving.  No other search breaks.
Break(x, y) ==
  /\ phase = "scoring"
  /\ x \in unscored /\ y \in underway
  /\ x.doc = y.doc /\ x.from < y.from
  /\ phase' = "broken"
  /\ unscored' = {}
  /\ UNCHANGED <<shared, query, todo, underway, answers>>

Show ==
  /\ phase = "scoring"
  /\ unscored = {}
  /\ phase' = "shown"
  /\ UNCHANGED <<shared, query, todo, underway, answers, unscored>>

Return ==
  /\ phase = "shown"
  /\ phase' = "idle"
  /\ UNCHANGED <<shared, query, todo, underway, answers, unscored>>

Next ==
  \/ \E found \in SUBSET Docs : Ask(found)
  \/ Begin
  \/ \E d \in Docs : Send(d)
  \/ \E x \in underway : Arrive(x)
  \/ Take
  \/ \E x \in unscored, k \in 1 .. query : Score(x, k)
  \/ \E x \in unscored, y \in underway : Break(x, y)
  \/ Show
  \/ Return

Spec == Init /\ [][Next]_vars

=============================================================================
