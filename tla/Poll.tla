--------------------------------- MODULE Poll ---------------------------------
(***************************************************************************)
(* What the README of ElectionsSimulation promises to the one who types    *)
(* the commands: a register of voters and of who of them has voted,        *)
(* without trees, lists, filter or counters.  Registry implements it.      *)
(*                                                                         *)
(* What it cannot promise: a newcomer may be turned away, a voter with a   *)
(* long id may be overlooked, and nothing holds after the end of the input *)
(* or, once a voter was deleted, when the program uses freed memory.       *)
(***************************************************************************)
EXTENDS Naturals, FiniteSets

CONSTANTS
  Ids,    \* of the voters
  Long,   \* those the filter may overlook
  Codes   \* postal codes

VARIABLES
  post,      \* the postal code of every registered voter
  hasvoted,  \* the registered voters that have voted
  answer,    \* what the program prints
  purged,    \* a voter was deleted
  fate       \* of the program

vars == <<post, hasvoted, answer, purged, fate>>

Registered == DOMAIN post
In(p) == {v \in Registered : post[v] = p}
Inhabited == {p \in Codes : In(p) # {}}

Say(what) == answer' = what
Same == UNCHANGED <<post, hasvoted, purged, fate>>

Init ==
  /\ post = [v \in {} |-> 0] /\ hasvoted = {}
  /\ answer = <<"nothing">> /\ purged = FALSE /\ fate = "fine"

Register(v, p) ==
  /\ v \notin Registered
  /\ post' = [w \in Registered \cup {v} |-> IF w = v THEN p ELSE post[w]]
  /\ Say(<<"inserted", v>>) /\ UNCHANGED <<hasvoted, purged, fate>>

Silence == Say(<<"nothing">>) /\ Same

\* A voter is not registered twice, but somebody else may be taken for one.
TurnAway(v) == Say(<<"exists", v>>) /\ Same

Find(v) == v \in Registered /\ Say(<<"found", v, post[v]>>) /\ Same

Overlook(v) == (v \in Registered => v \in Long) /\ Say(<<"missing", v>>) /\ Same

\* lbf and lrb.
Filtered(v) == Say(<<"possibly", v>>) /\ Same
Searched(v) == Say(<<"tree", v, v \in Registered>>) /\ Same

Remove(v) ==
  /\ v \in Registered
  /\ post' = [w \in Registered \ {v} |-> post[w]] /\ hasvoted' = hasvoted \ {v}
  /\ Say(<<"deleted", v>>) /\ purged' = TRUE /\ UNCHANGED fate

Vote(v) ==
  /\ v \in Registered \ hasvoted
  /\ hasvoted' = hasvoted \cup {v}
  /\ Say(<<"voted", v>>) /\ UNCHANGED <<post, purged, fate>>

VoteAgain(v) == v \in hasvoted /\ Say(<<"already", v>>) /\ Same

Total == Say(<<"number", Cardinality(hasvoted)>>) /\ Same

TotalIn(p) ==
  /\ Say(IF p \in Inhabited
         THEN <<"in", p, Cardinality(In(p) \cap hasvoted)>>
         ELSE <<"nobody", p>>)
  /\ Same

Rates ==
  /\ Say(<<"rates", [p \in Inhabited |->
            <<Cardinality(In(p) \cap hasvoted), Cardinality(In(p))>>]>>)
  /\ Same

PrintOut == Say(<<"registry", post>>) /\ Same

EndOfInput == fate' = "input ended"

Corrupt == purged' /\ fate' = "memory freed"

Next ==
  /\ fate = "fine"
  /\ \/ \E v \in Ids : \/ \E p \in Codes : Register(v, p)
                       \/ TurnAway(v) \/ Find(v) \/ Overlook(v)
                       \/ Filtered(v) \/ Searched(v)
                       \/ Remove(v) \/ Vote(v) \/ VoteAgain(v)
     \/ Total \/ (\E p \in Codes : TotalIn(p)) \/ Rates
     \/ PrintOut \/ Silence \/ EndOfInput \/ Corrupt

Spec == Init /\ [][Next]_vars
===============================================================================
