------------------------------ MODULE Registry ------------------------------
(***************************************************************************)
(* The syntax extensions of the process (src/registry.c, src/plugin.c,     *)
(* extensions/core-extensions.c, the node types of syntax_extension.c) and *)
(* the threads that register, look up and release them. pthread_once and   *)
(* the mutex are used as mutex.h has them. The node types are handed out   *)
(* without a lock: the read of the last one and its write are two steps.   *)
(***************************************************************************)
EXTENDS Integers, SequencesExt

CONSTANTS
    Threads,
    Registrar,    \* the thread that has a plugin of its own and releases all of them
    MAX_TYPE,     \* CMARK_NODE_VALUE_MASK
    MaxCalls      \* of one thread
ASSUME RegistryAssumption == "free" \notin Threads /\ MAX_TYPE \in Nat

\* What core_extensions_registration and the registrar's plugin create: an
\* extension for each node type it adds.
Core == <<"table", "table", "strikethrough">>
Plugin == <<"plugin">>
Names(plugin) == IF plugin = Core THEN <<"table", "strikethrough">> ELSE plugin

VARIABLES
    once,               \* registered_once
    lock,               \* the holder of extensions_lock
    syntax_extensions,  \* their names
    last, made,         \* the last node type; all that were returned
    flag,               \* CMARK_NODE__TABLE_VISITED has its bit
    ensured,            \* the threads that ensure_registered has returned to
    released,           \* cmark_release_plugins has run
    at                  \* where each thread is, in what call: the plugin that it
                        \* registers, the types that are to do, and what it read
vars == <<once, lock, syntax_extensions, last, made, flag, ensured, released, at>>
types == <<last, made, flag>>
list == <<lock, syntax_extensions, released>>

Idle(calls) == [pc |-> "idle", plugin |-> <<>>, todo |-> <<>>, read |-> 0, calls |-> calls]
Init == /\ once = "new" /\ lock = "free" /\ syntax_extensions = <<>>
        /\ last = 0 /\ made = <<>> /\ flag = FALSE
        /\ ensured = {} /\ released = FALSE /\ at = [t \in Threads |-> Idle(0)]

Goto(t, label) == at' = [at EXCEPT ![t].pc = label]
Create(t, label, plugin) ==
    at' = [at EXCEPT ![t].pc = label, ![t].plugin = plugin, ![t].todo = plugin]
Return(t) == at' = [at EXCEPT ![t] = Idle(at[t].calls)]
Call(t, label, plugin) ==
    /\ at[t].pc = "idle" /\ at[t].calls < MaxCalls
    /\ at' = [at EXCEPT ![t] = [Idle(at[t].calls + 1) EXCEPT !.pc = label, !.plugin = plugin, !.todo = plugin]]
    /\ UNCHANGED <<once, list, types, ensured>>
-----------------------------------------------------------------------------
\* The calls. A client registers its plugin when the core extensions are there,
\* and one client does so at a time: the types have no lock.
ensure_registered(t) == Call(t, "once", <<>>)
register_plugin(t) == t = Registrar /\ t \in ensured /\ Call(t, "create", Plugin)
find_syntax_extension(t) == Call(t, "find", <<>>)
release_plugins(t) == t = Registrar /\ Call(t, "release", <<>>)

\* CMARK_RUN_ONCE: the first thread runs register_plugins, the others wait for
\* its end. The flag of the table extension can be registered only once.
\* Mutant: whoever comes before the end is the first.
First_BeforeEnd == once # "done"
First == once = "new"
StartOnce(t) ==
    /\ at[t].pc = "once" /\ First /\ once' = "running"
    /\ Create(t, IF flag THEN "abort" ELSE "create", Core) /\ flag' = TRUE
    /\ UNCHANGED <<list, last, made, ensured>>
\* Mutant: to have begun is enough.
Over_Begun == once # "new"
Over == once = "done"
PassOnce(t) ==
    /\ at[t].pc = "once" /\ Over
    /\ Return(t) /\ ensured' = ensured \cup {t}
    /\ UNCHANGED <<once, list, types>>

\* cmark_syntax_extension_add_node: 0 when there are no more types
ReadType(t) ==
    /\ at[t].pc = "create" /\ at[t].todo # <<>>
    /\ at' = [at EXCEPT ![t].read = last, ![t].pc = "write"]
    /\ UNCHANGED <<once, list, types, ensured>>
\* Mutant: the type that is returned is not stored.
Stored_Not(type) == last
Stored(type) == IF type = 0 THEN last ELSE type
WriteType(t) ==
    /\ at[t].pc = "write"
    /\ LET type == IF at[t].read = MAX_TYPE THEN 0 ELSE at[t].read + 1
       IN  /\ last' = Stored(type)
           /\ made' = Append(made, type)
    /\ at' = [at EXCEPT ![t].todo = Tail(@), ![t].pc = "create"]
    /\ UNCHANGED <<once, list, flag, ensured>>

\* The lock of the list, and what is done under it
Wants(t) == \/ at[t].pc \in {"find", "release"}
            \/ at[t].pc = "create" /\ at[t].todo = <<>>
Take(t) ==
    /\ Wants(t) /\ lock = "free" /\ lock' = t
    /\ Goto(t, IF at[t].pc = "create" THEN "append" ELSE IF at[t].pc = "find" THEN "unlock" ELSE "free")
    /\ UNCHANGED <<once, syntax_extensions, released, types, ensured>>
AppendExtensions(t) ==
    /\ at[t].pc = "append"
    /\ syntax_extensions' = syntax_extensions \o Names(at[t].plugin)
    /\ Goto(t, "unlock")
    /\ UNCHANGED <<once, lock, released, types, ensured>>
FreeExtensions(t) ==
    /\ at[t].pc = "free"
    /\ syntax_extensions' = <<>> /\ released' = TRUE /\ Goto(t, "unlock")
    /\ UNCHANGED <<once, lock, types, ensured>>
\* The function that was run once has ended.
Unlock(t) ==
    /\ at[t].pc = "unlock" /\ lock' = "free" /\ Return(t)
    /\ IF at[t].plugin = Core THEN once' = "done" /\ ensured' = ensured \cup {t}
       ELSE UNCHANGED <<once, ensured>>
    /\ UNCHANGED <<syntax_extensions, released, types>>

Step(t) == \/ StartOnce(t) \/ PassOnce(t) \/ ReadType(t) \/ WriteType(t) \/ Take(t)
           \/ AppendExtensions(t) \/ FreeExtensions(t) \/ Unlock(t)
Next == \/ \E t \in Threads : ensure_registered(t)
        \/ \E t \in Threads : register_plugin(t)
        \/ \E t \in Threads : find_syntax_extension(t)
        \/ \E t \in Threads : release_plugins(t)
        \/ \E t \in Threads : StartOnce(t)
        \/ \E t \in Threads : PassOnce(t)
        \/ \E t \in Threads : ReadType(t)
        \/ \E t \in Threads : WriteType(t)
        \/ \E t \in Threads : Take(t)
        \/ \E t \in Threads : AppendExtensions(t)
        \/ \E t \in Threads : FreeExtensions(t)
        \/ \E t \in Threads : Unlock(t)
\* A thread that can go on does. The mutex need not be fair: a thread makes
\* MaxCalls calls.
Fairness == \A t \in Threads : WF_vars(Step(t))
Spec == Init /\ [][Next]_vars /\ Fairness
-----------------------------------------------------------------------------
\* A thread to which ensure_registered has returned finds every core extension,
\* whoever ran the registration, until the extensions are released; and nothing
\* is registered twice. No two extensions have the same type of node, whatever the
\* threads do around the registration of one. core-extensions.c,
\* cmark_register_plugin, cmark_syntax_extension_add_node
EnsuredFound ==
    /\ ensured # {} /\ ~released => \A name \in ToSet(Core) : Contains(syntax_extensions, name)
    /\ \A i, j \in DOMAIN syntax_extensions :
          i # j /\ syntax_extensions[i] \in ToSet(Core) =>
              syntax_extensions[i] # syntax_extensions[j]
    /\ \A i, j \in DOMAIN made : i # j => made[i] # made[j] \/ made[i] = 0

\* Every call returns: nothing is waited for that waits itself, and the table's
\* flag is not registered again, which aborts.
CallsReturn == \A t \in Threads : at[t].pc # "idle" ~> at[t].pc = "idle"
=============================================================================
