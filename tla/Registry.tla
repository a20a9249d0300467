------------------------------- MODULE Registry -------------------------------
(***************************************************************************)
(* runelection of ElectionsSimulation: the commands, and the structures    *)
(* they keep together - the tree of voters, the tree of postal codes with  *)
(* a list of voters in each, the Bloom filter, and four counters.  One     *)
(* step is one command, one line of the registry file, or one line of a    *)
(* file given to load.  The trees are used by their contract, SearchTree;  *)
(* a use of freed memory or of NULL ends the run as "undefined".           *)
(***************************************************************************)
EXTENDS Integers, Sequences, FiniteSets, Functions

CONSTANTS
  Ids,           \* of the voters, in the order of strcmp()
  Long,          \* those of four characters and more
  Codes,         \* postal codes
  Djb2, Murmur,  \* the hash of an id
  NumOfUpdates,  \* num_of_updates, -n
  MaxLines       \* bound: the lines of a file for load

ASSUME RegistryAssumption ==
  /\ Ids \subseteq Nat /\ Long \subseteq Ids
  /\ Djb2 \in [Ids -> Nat] /\ Murmur \in [Ids -> Nat]
  /\ NumOfUpdates \in Nat /\ MaxLines \in Nat

VARIABLES
  pc,         \* reading the registry, a command, or the file of load
  post,       \* voters_tree: the postal code of each voter in it
  hasvoted,   \* the voters in it with hasvoted = YES
  area,       \* postalcodes: the record of each code in it
  count, havevoted,
  filter,     \* the size and the set bits of the filter
  updates,    \* updates_done; counted up to num_of_updates
  keys,       \* the lines load has not read yet
  answer,     \* what the last step has printed
  purged      \* history: a voter was deleted

voters == <<post, hasvoted, area, count, havevoted>>
bloom == <<filter, updates>>
vars == <<pc, voters, bloom, keys, answer, purged>>

Registered == DOMAIN post

Init ==
  /\ pc = "reading"
  /\ post = [v \in {} |-> 0] /\ hasvoted = {}
  /\ area = [p \in {} |-> 0]
  /\ count = 0 /\ havevoted = 0
  /\ filter = [size |-> 1, bits |-> {}] /\ updates = 0
  /\ keys = <<>> /\ answer = <<"nothing">> /\ purged = FALSE

Say(what) == answer' = what
SayNothing == Say(<<"nothing">>)

Undefined ==
  /\ pc' = "undefined" /\ SayNothing
  /\ UNCHANGED <<voters, bloom, keys, purged>>

-------------------------------------------------------------------------------
(* The Bloom filter. *)

\* bloom_comp_size(): the least size that has no divisor below its half.
Composite(n) == \E d \in 2 .. (n \div 2) - 1 : n % d = 0

CompSize(n) ==
  LET search[size \in Nat] == IF Composite(size) THEN search[size + 1] ELSE size
  IN search[3 * n]

\* The bits of id v, when murmur3_32() gives m.
Places(size, v, m) ==
  {Djb2[v] % size, m % size, (Djb2[v] + 33 * m) % size}

\* murmur3_32() reads eight bytes for every four characters: from four on, what
\* it gives depends on the memory behind the string.
Murmurs(size, v) == IF v \in Long THEN 0 .. size - 1 ELSE {Murmur[v]}

\* votersbloom_in() may give this answer.
MaybeIn(v) ==
  \E m \in Murmurs(filter.size, v) : Places(filter.size, v, m) \subseteq filter.bits
MaybeOut(v) ==
  \E m \in Murmurs(filter.size, v) : ~(Places(filter.size, v, m) \subseteq filter.bits)

Counted(n) == IF n < NumOfUpdates THEN n ELSE NumOfUpdates

\* Without the insertion behind the loop of votersbloom_fill().
MakeShort(n, vs, upd) ==
  /\ \E last \in vs :
       filter' = [size |-> CompSize(n),
                  bits |-> UNION {Places(CompSize(n), v, Murmur[v]) :
                                    v \in vs \ {last}}]
  /\ updates' = Counted(upd + Cardinality(vs) - 1)

\* bloom_init() for n voters and votersbloom_fill() with the ids vs, after upd
\* updates; nothing resets their number.
Make(n, vs, upd) ==
  /\ \E h \in [vs \cap Long -> 0 .. CompSize(n) - 1] :
       filter' = [size |-> CompSize(n),
                  bits |-> UNION {Places(CompSize(n), v,
                                         IF v \in Long THEN h[v] ELSE Murmur[v]) :
                                    v \in vs}]
  /\ updates' = Counted(upd + Cardinality(vs))

\* votersbloom_insert()
SetBits(v) ==
  /\ \E m \in Murmurs(filter.size, v) :
       filter' = [filter EXCEPT !.bits = @ \cup Places(filter.size, v, m)]
  /\ updates' = Counted(updates + 1)

\* votersbloom_insert_update()
AddToFilter(v, n, vs) ==
  IF updates + 1 >= NumOfUpdates THEN Make(n, vs, updates + 1) ELSE SetBits(v)

\* votersbloom_delete_update(); bloom_init() gives NULL for no voters.
RemakeFails(n) == updates + 1 >= NumOfUpdates /\ n = 0

DropFromFilter(n, vs) ==
  IF updates + 1 >= NumOfUpdates THEN Make(n, vs, updates + 1)
  ELSE updates' = updates + 1 /\ UNCHANGED filter

-------------------------------------------------------------------------------
(* Postal codes. *)

\* voterslist_delete() finds nobody, for its comparison reads the Voter as a
\* string, and says so with the 0 that stands for success: the counters are
\* brought up to date, and the list keeps a pointer to a voter who is freed.
Freed(p) == {w \in area[p].listed : w \notin Registered \/ post[w] # p}

\* The voters connlist_insert_with_cmp() compares v with: the list is in
\* descending order, and the walk stops behind the place of v.
Passed(p, v) == {w \in area[p].listed : \A u \in area[p].listed : w < u => v <= u}

CanEnter(v, p) == p \in DOMAIN area => Passed(p, v) \cap Freed(p) = {}

NewArea == [members |-> 0, votes |-> 0, listed |-> {}]

AreaOf(p) == IF p \in DOMAIN area THEN area[p] ELSE NewArea

\* votersrbt_insert() and postalcodes_insert().
Enter(v, p) ==
  /\ post' = [w \in Registered \cup {v} |-> IF w = v THEN p ELSE post[w]]
  /\ area' = [q \in DOMAIN area \cup {p} |->
                IF q = p THEN [members |-> AreaOf(p).members + 1,
                               votes   |-> AreaOf(p).votes,
                               listed  |-> AreaOf(p).listed \cup {v}]
                ELSE area[q]]
  /\ count' = count + 1
  /\ UNCHANGED <<hasvoted, havevoted>>

One(condition) == IF condition THEN 1 ELSE 0

\* Without the test of hasvoted.
WithoutVote(v) ==
  [members |-> area[post[v]].members - 1,
   votes   |-> area[post[v]].votes - 1,
   listed  |-> area[post[v]].listed]

\* The record of the code of v without v.
Without(v) ==
  [members |-> area[post[v]].members - 1,
   votes   |-> area[post[v]].votes - One(v \in hasvoted),
   listed  |-> area[post[v]].listed]

\* The number of those who have voted is left alone.
LeaveVotes(v) ==
  /\ post' = Restrict(post, Registered \ {v}) /\ hasvoted' = hasvoted \ {v}
  /\ area' = IF Without(v).members = 0 THEN Restrict(area, DOMAIN area \ {post[v]})
             ELSE [area EXCEPT ![post[v]] = Without(v)]
  /\ count' = count - 1 /\ UNCHANGED havevoted

\* postalcodes_remove_voter() and votersrbt_delete().
Leave(v) ==
  /\ post' = Restrict(post, Registered \ {v}) /\ hasvoted' = hasvoted \ {v}
  /\ area' = IF Without(v).members = 0 THEN Restrict(area, DOMAIN area \ {post[v]})
             ELSE [area EXCEPT ![post[v]] = Without(v)]
  /\ count' = count - 1 /\ havevoted' = havevoted - One(v \in hasvoted)

\* rbt_delete() may free more than one node when it does not empty the tree.
MayBreak(v) ==
  \/ Registered # {v}
  \/ Without(v).members = 0 /\ DOMAIN area # {post[v]}

-------------------------------------------------------------------------------
(* The registry file. *)

ReadRecord(v, p) ==
  /\ pc = "reading" /\ v \notin Registered
  /\ Enter(v, p)
  /\ Say(<<"inserted", v>>)
  /\ UNCHANGED <<pc, bloom, keys, purged>>

ReadDuplicate(v) ==
  /\ pc = "reading" /\ v \in Registered
  /\ Say(<<"exists", v>>)
  /\ UNCHANGED <<pc, voters, bloom, keys, purged>>

\* The output file cannot be opened, or the registry was empty.
GiveUp ==
  /\ pc = "reading"
  /\ pc' = "ended" /\ SayNothing
  /\ UNCHANGED <<voters, bloom, keys, purged>>

StartFilter ==
  /\ pc = "reading" /\ count # 0
  /\ Make(count, Registered, 0)
  /\ pc' = "command" /\ SayNothing
  /\ UNCHANGED <<voters, keys, purged>>

-------------------------------------------------------------------------------
(* The commands. *)

Asks(what) ==
  /\ pc = "command" /\ Say(what)
  /\ UNCHANGED <<pc, voters, bloom, keys, purged>>

Lbf(k) == \/ MaybeIn(k) /\ Asks(<<"possibly", k>>)
          \/ MaybeOut(k) /\ Asks(<<"missing", k>>)

Lrb(k) == Asks(<<"tree", k, k \in Registered>>)

\* The short-circuit of ins(): a key the filter has is not searched for.
Refuse(k) ==
  /\ MaybeIn(k) \/ k \in Registered
  /\ Asks(<<"exists", k>>)

Ins(k, p) ==
  /\ pc = "command" /\ MaybeOut(k) /\ k \notin Registered
  /\ CanEnter(k, p)
  /\ Enter(k, p)
  /\ AddToFilter(k, count + 1, Registered \cup {k})
  /\ Say(<<"inserted", k>>)
  /\ UNCHANGED <<pc, keys, purged>>

InsUndefined(k, p) ==
  /\ pc = "command" /\ MaybeOut(k) /\ k \notin Registered
  /\ ~CanEnter(k, p)
  /\ Undefined

\* find(), delete() and vote() go on with a key that the filter and the tree have.
Reached(k) == MaybeIn(k) /\ k \in Registered
NotReached(k) == MaybeOut(k) \/ k \notin Registered

Find(k) == \/ Reached(k) /\ Asks(<<"found", k, post[k]>>)
           \/ NotReached(k) /\ Asks(<<"missing", k>>)

DeleteMissing(k) == NotReached(k) /\ Asks(<<"missing", k>>)

\* connlist_delete() compares with every voter of the list.
Delete(k) ==
  /\ pc = "command" /\ Reached(k)
  /\ Freed(post[k]) = {} /\ ~RemakeFails(count - 1)
  /\ Leave(k)
  /\ DropFromFilter(count - 1, Registered \ {k})
  /\ Say(<<"deleted", k>>) /\ purged' = TRUE
  /\ UNCHANGED <<pc, keys>>

DeleteUndefined(k) ==
  /\ pc = "command" /\ Reached(k)
  /\ Freed(post[k]) # {} \/ RemakeFails(count - 1) \/ MayBreak(k)
  /\ pc' = "undefined" /\ purged' = TRUE /\ SayNothing
  /\ UNCHANGED <<voters, bloom, keys>>

\* vote(), when rest is what load has still to read.
Vote(k, rest) ==
  \/ /\ NotReached(k)
     /\ Say(<<"missing", k>>) /\ keys' = rest /\ UNCHANGED voters
  \/ /\ Reached(k) /\ k \in hasvoted
     /\ Say(<<"already", k>>) /\ keys' = rest /\ UNCHANGED voters
  \/ /\ Reached(k) /\ k \notin hasvoted
     /\ hasvoted' = hasvoted \cup {k}
     /\ area' = [area EXCEPT ![post[k]].votes = @ + 1]
     /\ havevoted' = havevoted + 1
     /\ Say(<<"voted", k>>) /\ keys' = rest /\ UNCHANGED <<post, count>>

VoteCommand(k) ==
  /\ pc = "command" /\ Vote(k, keys)
  /\ UNCHANGED <<pc, bloom, purged>>

\* fopen() of load, one round of its loop, and its end.
Load ==
  /\ pc = "command"
  /\ \E n \in 0 .. MaxLines : keys' \in [1 .. n -> Ids]
  /\ pc' = "load" /\ SayNothing
  /\ UNCHANGED <<voters, bloom, purged>>

LoadLine ==
  /\ pc = "load" /\ keys # <<>>
  /\ Vote(Head(keys), Tail(keys))
  /\ UNCHANGED <<pc, bloom, purged>>

Loaded ==
  /\ pc = "load" /\ keys = <<>>
  /\ pc' = "command" /\ SayNothing
  /\ UNCHANGED <<voters, bloom, keys, purged>>

Voted == Asks(<<"number", havevoted>>)

VotedIn(p) ==
  Asks(IF p \in DOMAIN area THEN <<"in", p, area[p].votes>> ELSE <<"nobody", p>>)

\* rbt_get_all_nodes() of an empty tree gives one node, the NULL of the guard.
VotedPerPc ==
  /\ DOMAIN area # {}
  /\ Asks(<<"rates", [p \in DOMAIN area |-> <<area[p].votes, area[p].members>>]>>)

Exit ==
  /\ pc = "command" /\ Registered # {}
  /\ Say(<<"registry", post>>) /\ pc' = "ended"
  /\ UNCHANGED <<voters, bloom, keys, purged>>

EmptyUndefined ==
  /\ pc = "command" /\ (DOMAIN area = {} \/ Registered = {})
  /\ Undefined

\* getline() fails: "continue" tests command, which is NULL or freed.
EndOfInput ==
  /\ pc = "command"
  /\ pc' = "eof" /\ SayNothing
  /\ UNCHANGED <<voters, bloom, keys, purged>>

Command(k) ==
  \/ Lbf(k) \/ Lrb(k) \/ Refuse(k) \/ Find(k)
  \/ \E p \in Codes : Ins(k, p) \/ InsUndefined(k, p)
  \/ DeleteMissing(k) \/ Delete(k) \/ DeleteUndefined(k)
  \/ VoteCommand(k)

Next ==
  \/ \E v \in Ids : ReadDuplicate(v) \/ \E p \in Codes : ReadRecord(v, p)
  \/ GiveUp \/ StartFilter
  \/ \E k \in Ids : Command(k)
  \/ Load \/ LoadLine \/ Loaded
  \/ Voted \/ (\E p \in Codes : VotedIn(p)) \/ VotedPerPc
  \/ Exit \/ EmptyUndefined \/ EndOfInput

Spec == Init /\ [][Next]_vars

-------------------------------------------------------------------------------
(* Properties. *)

\* Every variable has its type, which for the counters means that none of them
\* falls below zero.
TypeOK ==
  /\ pc \in {"reading", "command", "load", "ended", "eof", "undefined"}
  /\ Registered \subseteq Ids /\ post \in [Registered -> Codes]
  /\ hasvoted \subseteq Registered
  /\ DOMAIN area \subseteq Codes
  /\ area \in [DOMAIN area -> [members : Nat, votes : Nat, listed : SUBSET Ids]]
  /\ count \in Nat /\ havevoted \in Nat
  /\ DOMAIN filter = {"size", "bits"} /\ updates \in 0 .. NumOfUpdates
  /\ keys \in Seq(Ids) /\ purged \in BOOLEAN

LivesIn(p) == {v \in Registered : post[v] = p}

\* The four counters, which commands.c and postalcodes.c keep apart from the
\* trees they count, agree with them after every mixture of ins, delete, vote and
\* load; a postal code is there exactly as long as somebody lives in it, and its
\* list has every one of them, whatever the deletions left behind in it.
CountersAgree ==
  /\ count = Cardinality(Registered) /\ havevoted = Cardinality(hasvoted)
  /\ DOMAIN area = {post[v] : v \in Registered}
  /\ \A p \in DOMAIN area :
       /\ area[p].members = Cardinality(LivesIn(p))
       /\ area[p].votes = Cardinality(LivesIn(p) \cap hasvoted)
       /\ LivesIn(p) \subseteq area[p].listed

Fate == CASE pc = "eof" -> "input ended"
          [] pc = "undefined" -> "memory freed"
          [] OTHER -> "fine"

Contract == INSTANCE Poll WITH fate <- Fate

\* Every answer is the one the register of voters gives: nobody is registered,
\* counted or printed twice, nobody with a short id is overlooked for the Bloom
\* filter's sake, also when it is made again with another size, no vote is lost
\* or counted for another postal code, and freed memory and NULL are used only
\* after a delete (what murmur3_32() reads behind a long id, Overlook, apart).
PollSpec == Contract!Spec
===============================================================================
