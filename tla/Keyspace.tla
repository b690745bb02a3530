------------------------------ MODULE Keyspace ------------------------------
(***************************************************************************)
(* The resource of the database executor and the commands of src/ that    *)
(* act on it: SREM (commands/sets/srem.rs), SCARD (commands/sets/scard.rs) *)
(* and FLUSHDB (commands/server/flushdb.rs).  A value is tagged with its  *)
(* type; only the members of a set are kept, strings and lists are       *)
(* opaque.  The argument vector after the command name is an input.       *)
(***************************************************************************)
EXTENDS Naturals, Sequences, SequencesExt

CONSTANTS Keys,      \* key names (model values)
          Members,   \* member names (model values)
          MaxArgs    \* members named by one srem

ASSUME MaxArgs \in Nat

VARIABLES
    db,      \* [Keys -> Value], the Database map (an absent key has type "none")
    last,    \* [cmd, args]: the command the executor ran last
    reply    \* [kind, n]: what that command returned

vars == <<db, last, reply>>

Absent == [type |-> "none", members |-> {}]
Value == {Absent}
         \cup [type: {"string", "list"}, members: {{}}]
         \cup [type: {"set"}, members: SUBSET Members]
ReplyKinds == {"int", "ok", "wrongtype", "wrong_number_args", "invalid_args"}
NoReply == [kind |-> "ok", n |-> 0]

(* The argument vectors the model feeds each command.                     *)
SremArgs == {<<>>} \cup {<<k>> \o ms : k \in Keys, ms \in BoundedSeq(Members, MaxArgs)}
ScardArgs == {<<>>} \cup {<<k>> : k \in Keys} \cup {<<k, x>> : k, x \in Keys}
FlushArgs == {<<>>} \cup {<<k>> : k \in Keys}

(* Mutant: the filter on the result of remove is dropped, so every member *)
(* named counts, removed or not.                                          *)
RECURSIVE RemoveEachNoFilter(_, _)
RemoveEachNoFilter(S, ms) ==
    IF ms = <<>> THEN [n |-> 0, rest |-> S]
    ELSE LET r == RemoveEachNoFilter(S \ {Head(ms)}, Tail(ms))
         IN [n |-> r.n + 1, rest |-> r.rest]

(* srem.rs: members.map(|m| item.remove(m)).filter(|x| *x).count(): each *)
(* member is removed in turn, a repeated one is found only the first time. *)
RECURSIVE RemoveEach(_, _)
RemoveEach(S, ms) ==
    IF ms = <<>> THEN [n |-> 0, rest |-> S]
    ELSE LET r == RemoveEach(S \ {Head(ms)}, Tail(ms))
         IN [n |-> r.n + (IF Head(ms) \in S THEN 1 ELSE 0), rest |-> r.rest]

Reply(kind, n) == [kind |-> kind, n |-> n]

(* Mutant: a key of another type is answered like a missing key.         *)
SremNonSetAsEmpty(args) ==
    /\ last' = [cmd |-> "srem", args |-> args]
    /\ CASE Len(args) = 0 -> reply' = Reply("invalid_args", 0) /\ UNCHANGED db
         [] Len(args) = 1 -> reply' = Reply("wrong_number_args", 0) /\ UNCHANGED db
         [] db[args[1]].type = "set" ->
              LET r == RemoveEach(db[args[1]].members, Tail(args))
              IN /\ db' = [db EXCEPT ![args[1]].members = r.rest]
                 /\ reply' = Reply("int", r.n)
         [] OTHER -> reply' = Reply("int", 0) /\ UNCHANGED db

(* Srem::run: check_error_cases (no argument: invalid arguments; a key    *)
(* and no member: wrong number of arguments), then a set loses the named  *)
(* members and the count removed is returned, a missing key gives 0 and   *)
(* any other type WRONGTYPE.  An emptied set stays in the database.       *)
Srem(args) ==
    /\ last' = [cmd |-> "srem", args |-> args]
    /\ CASE Len(args) = 0 -> reply' = Reply("invalid_args", 0) /\ UNCHANGED db
         [] Len(args) = 1 -> reply' = Reply("wrong_number_args", 0) /\ UNCHANGED db
         [] db[args[1]].type = "set" ->
              LET r == RemoveEach(db[args[1]].members, Tail(args))
              IN /\ db' = [db EXCEPT ![args[1]].members = r.rest]
                 /\ reply' = Reply("int", r.n)
         [] db[args[1]].type = "none" -> reply' = Reply("int", 0) /\ UNCHANGED db
         [] OTHER -> reply' = Reply("wrongtype", 0) /\ UNCHANGED db

(* Mutant: SCARD answers one more than the cardinality.                   *)
ScardOffByOne(args) ==
    /\ last' = [cmd |-> "scard", args |-> args]
    /\ reply' = CASE Len(args) = 0 -> Reply("invalid_args", 0)
                  [] Len(args) # 1 -> Reply("wrong_number_args", 0)
                  [] db[args[1]].type = "set" ->
                       Reply("int", Cardinality(db[args[1]].members) + 1)
                  [] db[args[1]].type = "none" -> Reply("int", 0)
                  [] OTHER -> Reply("wrongtype", 0)
    /\ UNCHANGED db

(* Scard::run: exactly one key, else wrong number of arguments; a set     *)
(* answers its cardinality, a missing key 0, any other type WRONGTYPE.    *)
Scard(args) ==
    /\ last' = [cmd |-> "scard", args |-> args]
    /\ reply' = CASE Len(args) = 0 -> Reply("invalid_args", 0)
                  [] Len(args) # 1 -> Reply("wrong_number_args", 0)
                  [] db[args[1]].type = "set" ->
                       Reply("int", Cardinality(db[args[1]].members))
                  [] db[args[1]].type = "none" -> Reply("int", 0)
                  [] OTHER -> Reply("wrongtype", 0)
    /\ UNCHANGED db

(* FlushDb::run: no argument allowed; every key is deleted and OK sent.   *)
FlushDb(args) ==
    /\ last' = [cmd |-> "flushdb", args |-> args]
    /\ IF args = <<>>
       THEN /\ db' = [k \in Keys |-> Absent]
            /\ reply' = Reply("ok", 0)
       ELSE /\ reply' = Reply("wrong_number_args", 0)
            /\ UNCHANGED db

(* The database the executor starts from is any map the other commands   *)
(* (set, lpush, sadd) can build.                                          *)
Init ==
    /\ db \in [Keys -> Value]
    /\ last = [cmd |-> "none", args |-> <<>>]
    /\ reply = NoReply

Next ==
    \/ \E a \in SremArgs : Srem(a)
    \/ \E a \in ScardArgs : Scard(a)
    \/ \E a \in FlushArgs : FlushDb(a)

Spec == Init /\ [][Next]_vars

-----------------------------------------------------------------------------
(* Types; a count never exceeds the number of distinct members.           *)
TypeOK ==
    /\ db \in [Keys -> Value]
    /\ last.cmd \in {"none", "srem", "scard", "flushdb"}
    /\ reply.kind \in ReplyKinds
    /\ reply.n \in 0..Cardinality(Members)

(* SREM has set semantics although it walks its argument list with        *)
(* side effects: the reply is the number of distinct named members that   *)
(* were in the set, and the set loses exactly those (srem.rs test02).     *)
SremSetSemantics ==
    [][(last'.cmd = "srem" /\ reply'.kind = "int" /\ db[last'.args[1]].type = "set")
        => LET k == last'.args[1]
               M == ToSet(Tail(last'.args))
           IN /\ db'[k].members = db[k].members \ M
              /\ reply'.n = Cardinality(db[k].members \cap M)]_vars

(* Spec 8, type safety: a well-formed SREM or SCARD on a key holding      *)
(* another type answers WRONGTYPE, and WRONGTYPE leaves the database as   *)
(* it was.                                                                *)
TypeSafety ==
    [][/\ (last'.cmd \in {"srem", "scard"} /\ reply'.kind \in {"int", "wrongtype"})
           => (reply'.kind = "wrongtype"
                 <=> db[last'.args[1]].type \notin {"set", "none"})
       /\ reply'.kind = "wrongtype" => db' = db]_vars

(* scard.rs test07 (buffer "scard key1 key2 key3"): SCARD given more than *)
(* one key answers "invalid arguments", as it does with no key at all.     *)
ScardArityAsTested ==
    [][(last'.cmd = "scard" /\ Len(last'.args) > 1) => reply'.kind = "invalid_args"]_vars

=============================================================================
