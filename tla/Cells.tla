------------------------------- MODULE Cells -------------------------------
(***************************************************************************)
(* The typed cells of core/src/Redis.ts:741-961: ref, setOf, sortedSet and *)
(* hashOf over one key, and the lifetime of that key.                      *)
(*                                                                         *)
(* A ref writes with SET, which carries its lifetime; its update reads     *)
(* first. A collection writes with SADD, ZADD, ZINCRBY or HSET and then    *)
(* stamps the key with EXPIRE. Each command is atomic and other fibers run *)
(* in between. A command whose caller gave up may still run: that is a     *)
(* fiber that is slow.                                                     *)
(*                                                                         *)
(* The content of the key is a function from its items to their payloads:  *)
(* the one item of a ref, the members of a set, the members of a sorted    *)
(* set with their scores, the fields of a hash with their values. Redis    *)
(* has no empty key.                                                       *)
(***************************************************************************)
EXTENDS Durations

CONSTANTS
    Fibers,     \* callers of multi-command operations
    Kinds,      \* the kinds of cell: "ref", "set", "zset", "hash"
    Items,      \* [Kinds -> items]
    Payloads,   \* [Kinds -> payloads]
    Ttls,       \* the configured lifetimes: options of a duration
    Own         \* a lifetime given with a write (WriteOptions.ttl), or to expire

ASSUME CellsAssumption ==
    /\ \A t \in Ttls : t # None => t = Some(t[1]) /\ t[1] \in Nat \ {0}
    /\ Own \in Nat \ {0}
    /\ Kinds \subseteq { "ref", "set", "zset", "hash" }
    /\ "ref" \in Kinds => Items["ref"] = {"value"}

Bad == "bad"    \* text that another client wrote and the schema rejects

VARIABLES
    kind,       \* the kind of the cell
    ttl,        \* options.ttl
    content,    \* Redis: what the key holds
    left,       \* Redis: units until the key expires, or NoTtl
    todo,       \* the command that each fiber is to send next
    bare        \* history: why the key may have no lifetime

vars == << kind, ttl, content, left, todo, bare >>

NoTtl == 0
Empty == [i \in {} |-> Bad]
Exists == DOMAIN content # {}

Steps == { "none", "set", "stamp" }
Nothing == [step |-> "none", item |-> "", payload |-> "", keepTtl |-> FALSE,
            asked |-> 0, gone |-> FALSE]

ToSend == [step : Steps, item : Items[kind] \cup {""},
           payload : IF kind = "ref" THEN Payloads[kind] \cup {""} ELSE {""},
           keepTtl : BOOLEAN, asked : Nat, gone : BOOLEAN]

Options == [ttl : {None, Some(Own)}, keepTtl : BOOLEAN]

\* What the typed API writes: members are encoded, fields and scores are not.
Valid(item, payload) == IF kind \in {"ref", "hash"} THEN payload # Bad ELSE item # Bad

Put(item, payload) ==
    [i \in DOMAIN content \cup {item} |-> IF i = item THEN payload ELSE content[i]]

\* What Redis makes of EX and EXPIRE: seconds, never none.
Lifetime(d) == ExpirySeconds(d) * Second

\* The key, or some of its items, disappear under a fiber that has yet to stamp.
Lose(items) ==
    /\ content' = [i \in DOMAIN content \ items |-> content[i]]
    /\ todo' = [f \in Fibers |->
                   IF todo[f].item \in items THEN [todo[f] EXCEPT !.gone = TRUE] ELSE todo[f]]
    /\ IF DOMAIN content \subseteq items
       THEN left' = NoTtl /\ bare' = {}
       ELSE UNCHANGED << left, bare >>

Init ==
    /\ kind \in Kinds
    /\ ttl \in Ttls
    /\ content = Empty
    /\ left = NoTtl
    /\ todo = [f \in Fibers |-> Nothing]
    /\ bare = {}

\* restampTtl, and the `ex` of ref.set: the lifetime a write asks for.
Asked(opts) ==
    CASE opts.keepTtl -> None
      [] ~opts.keepTtl /\ opts.ttl # None -> opts.ttl
      [] OTHER -> ttl

\* SET key value [EX s | KEEPTTL]: without either the key has no lifetime.
StoreRef(payload, opts) ==
    /\ content' = Put("value", payload)
    /\ left' = IF opts.keepTtl THEN left
               ELSE IF Asked(opts) = None THEN NoTtl ELSE Lifetime(Asked(opts)[1])
    /\ bare' = IF ~opts.keepTtl THEN {} ELSE IF Exists THEN bare ELSE {"kept"}

\* ref.set
RefSet(payload, opts) ==
    /\ kind = "ref" /\ Valid("value", payload)
    /\ StoreRef(payload, opts)
    /\ UNCHANGED << kind, ttl, todo >>

\* ref.update: GET finds a value that decodes, and f gives another one.
UpdateRead(f, payload, keepTtl) ==
    /\ kind = "ref" /\ todo[f] = Nothing
    /\ Exists /\ Valid("value", content["value"]) /\ Valid("value", payload)
    /\ todo' = [todo EXCEPT ![f] =
                   [Nothing EXCEPT !.step = "set", !.payload = payload, !.keepTtl = keepTtl]]
    /\ UNCHANGED << kind, ttl, content, left, bare >>

\* ... and set writes it, whatever has become of the key.
UpdateSet(f) ==
    /\ todo[f].step = "set"
    /\ StoreRef(todo[f].payload, [ttl |-> None, keepTtl |-> todo[f].keepTtl])
    /\ todo' = [todo EXCEPT ![f] = Nothing]
    /\ UNCHANGED << kind, ttl >>

StampThenWrite(f, item, payload, opts) ==  \* mutant: EXPIRE goes first
    /\ kind # "ref" /\ todo[f] = Nothing
    /\ Valid(item, payload)
    /\ content' = Put(item, payload)
    /\ left' = IF Exists /\ Asked(opts) # None THEN Lifetime(Asked(opts)[1]) ELSE left
    /\ bare' = IF Exists \/ Asked(opts) # None THEN bare ELSE {"kept"}
    /\ UNCHANGED << kind, ttl, todo >>

\* A write to a collection leaves the lifetime of the key alone. A key it
\* creates has none.
Write(f, item, payload, opts) ==
    /\ kind # "ref" /\ todo[f] = Nothing
    /\ Valid(item, payload)
    /\ content' = Put(item, payload)
    /\ bare' = IF Exists \/ Asked(opts) # None THEN bare ELSE {"kept"}
    /\ todo' = IF Asked(opts) = None THEN todo
               ELSE [todo EXCEPT ![f] = [Nothing EXCEPT !.step = "stamp", !.item = item,
                                                        !.asked = Asked(opts)[1]]]
    /\ UNCHANGED << kind, ttl, left >>

\* setOf.add: SADD.
SetAdd(f, member, payload, opts) == kind = "set" /\ Write(f, member, payload, opts)

\* sortedSet.add: ZADD.
ZsetAdd(f, member, score, opts) == kind = "zset" /\ Write(f, member, score, opts)

\* sortedSet.incrBy: ZINCRBY, whatever the sum is.
ZsetIncrBy(f, member, sum, opts) == kind = "zset" /\ Write(f, member, sum, opts)

\* hashOf.set: HSET.
HashSet(f, field, value, opts) == kind = "hash" /\ Write(f, field, value, opts)

StampMissing(f) ==                         \* mutant: a key that is gone has a lifetime
    /\ todo[f].step = "stamp"
    /\ left' = Lifetime(todo[f].asked) /\ bare' = {}
    /\ todo' = [todo EXCEPT ![f] = Nothing]
    /\ UNCHANGED << kind, ttl, content >>

\* ... and EXPIRE, which does nothing when the key is gone.
Stamp(f) ==
    /\ todo[f].step = "stamp"
    /\ IF Exists THEN left' = Lifetime(todo[f].asked) /\ bare' = {}
                 ELSE UNCHANGED << left, bare >>
    /\ todo' = [todo EXCEPT ![f] = Nothing]
    /\ UNCHANGED << kind, ttl, content >>

\* The second command never runs: an error, a timeout, an interrupt or a crash.
Abandon(f) ==
    /\ todo[f].step # "none"
    /\ bare' = IF todo[f].step = "stamp" /\ Exists /\ left = NoTtl
               THEN bare \cup {"failed"} ELSE bare
    /\ todo' = [todo EXCEPT ![f] = Nothing]
    /\ UNCHANGED << kind, ttl, content, left >>

\* An item is removed. The last one takes the key with it.
RemoveItem(item) ==
    /\ item \in DOMAIN content
    /\ Lose({item})
    /\ UNCHANGED << kind, ttl >>

SetRemove(member) == kind = "set" /\ RemoveItem(member)         \* SREM
ZsetRemove(member) == kind = "zset" /\ RemoveItem(member)       \* ZREM
HashRemove(field) == kind = "hash" /\ RemoveItem(field)         \* HDEL

\* delete, and getDelete of a ref.
Delete ==
    /\ Exists
    /\ Lose(DOMAIN content)
    /\ UNCHANGED << kind, ttl >>

\* expire of a collection.
ExpireCall ==
    /\ kind # "ref" /\ Exists
    /\ left' = Lifetime(Own)
    /\ bare' = {}
    /\ UNCHANGED << kind, ttl, content, todo >>

\* Another client writes to the key what the schema rejects.
Spoil(item) ==
    /\ Exists
    /\ content' = IF kind \in {"ref", "hash"} THEN Put(item, Bad)
                  ELSE Put(Bad, CHOOSE p \in Payloads[kind] : TRUE)
    /\ UNCHANGED << kind, ttl, left, todo, bare >>

\* A second passes, and the key may expire.
Tick ==
    /\ left # NoTtl
    /\ IF left > Second
       THEN left' = left - Second /\ UNCHANGED << content, todo, bare >>
       ELSE Lose(DOMAIN content)
    /\ UNCHANGED << kind, ttl >>

Call(f) ==
    \/ \E p \in Payloads[kind], keep \in BOOLEAN : UpdateRead(f, p, keep)
    \/ UpdateSet(f)
    \/ \E i \in Items[kind], p \in Payloads[kind], o \in Options :
          SetAdd(f, i, p, o) \/ ZsetAdd(f, i, p, o) \/ ZsetIncrBy(f, i, p, o) \/ HashSet(f, i, p, o)
    \/ Stamp(f)
    \/ Abandon(f)

Next ==
    \/ \E f \in Fibers : Call(f)
    \/ \E p \in Payloads[kind], o \in Options : RefSet(p, o)
    \/ \E i \in Items[kind] : SetRemove(i) \/ ZsetRemove(i) \/ HashRemove(i) \/ Spoil(i)
    \/ Delete
    \/ ExpireCall
    \/ Tick

Spec == Init /\ [][Next]_vars

(***************************************************************************)
(* Properties.                                                             *)
(***************************************************************************)

TypeOK ==
    /\ kind \in Kinds
    /\ ttl \in Ttls
    /\ DOMAIN content \subseteq Items[kind] \cup {Bad}
    /\ left \in Nat
    /\ todo \in [Fibers -> ToSend]
    /\ bare \subseteq { "kept", "failed" }
    /\ Exists \/ left = NoTtl

\* With a configured lifetime, a key has none only while the EXPIRE of a write
\* is on its way, after a write whose EXPIRE never ran (Redis.ts:600-602), or
\* after a write with keepTtl that found no key (Redis.ts:581, :758).
NoKeyStaysForever ==
    Exists /\ left = NoTtl /\ ttl # None =>
        bare # {} \/ \E f \in Fibers : todo[f].step = "stamp"

\* An add that reports success leaves its item in the key for at least the
\* lifetime it asked for, unless the item went away between its two commands
\* (Redis.ts:603-612, RedisCommand.ts:14).
StampedInFull ==
    [][\A f \in Fibers : Stamp(f) =>
          todo[f].gone \/ (todo[f].item \in DOMAIN content' /\ left' >= todo[f].asked)]_vars
=============================================================================
