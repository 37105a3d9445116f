----------------------------- MODULE RegistryProofs -----------------------------
(***************************************************************************)
(* The safety property of Registry, for any threads, any number of calls   *)
(* and any number of node types. Node types are handed out without a lock; *)
(* the proof shows which discipline makes that safe: at any time at most   *)
(* one thread creates extensions, the one that runs the registration while *)
(* it is under way, and the registrar after it.                            *)
(***************************************************************************)
EXTENDS Registry, TLAPS, SequenceTheorems

CoreNames == {"table", "strikethrough"}
AllNames == CoreNames \cup {"plugin"}

Labels == {"idle", "once", "create", "write", "append", "find", "release", "free", "unlock",
           "abort"}

Places == [pc : Labels, plugin : {<<>>, Core, Plugin}, todo : Seq(AllNames), read : Nat,
               calls : Nat]

Types ==
    /\ once \in {"new", "running", "done"}
    /\ syntax_extensions \in Seq(AllNames)
    /\ last \in Nat /\ made \in Seq(Nat)
    /\ flag \in BOOLEAN /\ released \in BOOLEAN
    /\ ensured \subseteq Threads
    /\ at \in [Threads -> Places]

\* t is somewhere between the creation of its first extension and the unlock.
Creating(t) == at[t].pc \in {"create", "write", "append"}

\* Who creates extensions: the one thread that runs the registration while it is
\* under way, or the registrar when it is over.
Creators ==
    /\ \A t \in Threads : Creating(t) => at[t].plugin # <<>>
    /\ \A t \in Threads : at[t].plugin # <<>> => Creating(t) \/ at[t].pc = "unlock"
    /\ \A t \in Threads : at[t].plugin = Core =>
          once = "running" /\ (Creating(t) \/ at[t].pc = "unlock")
    /\ \A t, u \in Threads : at[t].plugin = Core /\ at[u].plugin = Core => t = u
    /\ \A t \in Threads : at[t].plugin = Plugin => once = "done" /\ t = Registrar

\* The table's flag is registered by the registration, and nobody is let past it
\* before its end.
OnceOK ==
    /\ flag => once # "new"
    /\ ensured # {} => once = "done"
    /\ \A t \in Threads : at[t].pc # "abort"

\* The list is empty until the extensions of the registration are appended.
ListOK ==
    /\ once = "new" => syntax_extensions = <<>>
    /\ \A t \in Threads : at[t].plugin = Core /\ Creating(t) => syntax_extensions = <<>>
    /\ \A t \in Threads : at[t].plugin = Core /\ at[t].pc = "unlock" /\ ~released =>
          \A name \in CoreNames : \E k \in DOMAIN syntax_extensions : syntax_extensions[k] = name
    /\ once = "done" /\ ~released =>
          \A name \in CoreNames : \E k \in DOMAIN syntax_extensions : syntax_extensions[k] = name
    /\ \A i, j \in DOMAIN syntax_extensions :
          i # j /\ syntax_extensions[i] \in CoreNames =>
              syntax_extensions[i] # syntax_extensions[j]

\* The type that a thread has read is still the last one when it writes.
TypesOK ==
    /\ \A t \in Threads : at[t].pc = "write" => at[t].read = last /\ at[t].todo # <<>>
    /\ \A k \in DOMAIN made : made[k] <= last
    /\ \A i, j \in DOMAIN made : i # j => made[i] # made[j] \/ made[i] = 0

IInv == Types /\ Creators /\ OnceOK /\ ListOK /\ TypesOK

-----------------------------------------------------------------------------
\* The core extensions and the plugin.
LEMMA Lists ==
    /\ Core # Plugin /\ Core # <<>> /\ Plugin # <<>>
    /\ Core \in Seq(AllNames) /\ Plugin \in Seq(AllNames) /\ <<>> \in Seq(AllNames)
    /\ ToSet(Core) = CoreNames
    /\ Names(Core) = <<"table", "strikethrough">> /\ Names(Plugin) = <<"plugin">>
<1>1. Core = <<"table", "table", "strikethrough">> /\ Plugin = <<"plugin">>
  BY DEF Core, Plugin
<1>2. Len(Core) = 3 /\ Len(Plugin) = 1
  BY <1>1
<1>3. Core # Plugin /\ Core # <<>> /\ Plugin # <<>>
  BY <1>2
<1>4. Core \in Seq(AllNames) /\ Plugin \in Seq(AllNames) /\ <<>> \in Seq(AllNames)
  BY <1>1 DEF AllNames, CoreNames
<1>5. ToSet(Core) = CoreNames
  <2>1. DOMAIN Core = 1 .. 3 /\ Core[1] = "table" /\ Core[2] = "table" /\ Core[3] = "strikethrough"
    BY <1>1
  <2> QED BY <2>1 DEF ToSet, CoreNames
<1> QED BY <1>1, <1>3, <1>4, <1>5 DEF Names

LEMMA InitIInv == Init => IInv
<1> SUFFICES ASSUME Init PROVE IInv
  OBVIOUS
<1>1. Types
  <2>1. [t \in Threads |-> Idle(0)] \in
           [Threads -> Places]
    BY Lists DEF Idle, Labels, Places
  <2> QED BY <2>1, EmptySeq DEF Init, Types
<1>2. \A t \in Threads : at[t].pc = "idle" /\ at[t].plugin = <<>>
  BY DEF Init, Idle
<1>3. Creators /\ OnceOK
  BY <1>2, Lists DEF Init, Creators, OnceOK, Creating
<1>4. ListOK /\ TypesOK
  BY <1>2, Lists DEF Init, ListOK, TypesOK, Creating
<1> QED BY <1>1, <1>3, <1>4 DEF IInv

-----------------------------------------------------------------------------
(* The steps. *)

\* What the steps say of at: t is somewhere else, the others are where they were.
LEMMA PlacesOf ==
    ASSUME Types, NEW t \in Threads, NEW p \in Places, at' = [at EXCEPT ![t] = p]
    PROVE  /\ at' \in [Threads -> Places]
           /\ at'[t] = p
           /\ \A u \in Threads \ {t} : at'[u] = at[u]
BY DEF Types

\* A thread that comes to a place where it creates nothing, while the list and the
\* types stay as they are.
LEMMA OtherPlace ==
    ASSUME IInv, NEW t \in Threads, NEW p \in Places, at' = [at EXCEPT ![t] = p],
           p.plugin = <<>>, p.pc \notin {"create", "write", "append", "abort"},
           UNCHANGED <<syntax_extensions, released, types>>,
           IF at[t].plugin = Core THEN once' = "done" /\ at[t].pc = "unlock" ELSE UNCHANGED once,
           ensured' \subseteq Threads, ensured' # {} => once' = "done"
    PROVE  IInv'
<1>1. /\ at' \in [Threads -> Places]
      /\ at'[t] = p
      /\ \A u \in Threads \ {t} : at'[u] = at[u]
  BY PlacesOf DEF IInv
<1>2. Types'
  BY <1>1 DEF IInv, Types, types
<1>3. Creators' /\ OnceOK'
  BY <1>1, Lists DEF IInv, Types, Creators, OnceOK, Creating, types
<1>4. TypesOK'
  BY <1>1 DEF IInv, TypesOK, types
<1>5. ListOK'
  BY <1>1, Lists DEF IInv, Types, ListOK, Creators, Creating
<1> QED BY <1>2, <1>3, <1>4, <1>5 DEF IInv

\* The place that a call begins at
LEMMA CallIs ==
    ASSUME Types, NEW t \in Threads, NEW label \in Labels, NEW plugin \in {<<>>, Core, Plugin},
           Call(t, label, plugin)
    PROVE  /\ at[t].pc = "idle"
           /\ \E p \in Places : p.pc = label /\ p.plugin = plugin /\ at' = [at EXCEPT ![t] = p]
           /\ UNCHANGED <<once, syntax_extensions, released, types, ensured>>
<1> DEFINE p == [Idle(at[t].calls + 1) EXCEPT !.pc = label, !.plugin = plugin, !.todo = plugin]
<1>1. at[t].calls + 1 \in Nat
  BY DEF Types, Places
<1>2. Idle(at[t].calls + 1) \in Places
  BY <1>1, Lists DEF Idle, Places, Labels
<1>3. p \in Places /\ p.pc = label /\ p.plugin = plugin
  BY <1>2, Lists DEF Places
<1>4. /\ at[t].pc = "idle" /\ at' = [at EXCEPT ![t] = p]
      /\ UNCHANGED <<once, list, types, ensured>>
  BY DEF Call
<1> QED BY <1>3, <1>4 DEF list

LEMMA CallIInv ==
    ASSUME IInv, NEW t \in Threads,
           ensure_registered(t) \/ find_syntax_extension(t) \/ release_plugins(t)
    PROVE  IInv'
<1>1. PICK label \in {"once", "find", "release"} : Call(t, label, <<>>)
  BY DEF ensure_registered, find_syntax_extension, release_plugins
<1>2. /\ at[t].pc = "idle"
      /\ \E p \in Places : p.pc = label /\ p.plugin = <<>> /\ at' = [at EXCEPT ![t] = p]
      /\ UNCHANGED <<once, syntax_extensions, released, types, ensured>>
  BY <1>1, CallIs DEF IInv, Labels
<1>3. PICK p \in Places : p.pc = label /\ p.plugin = <<>> /\ at' = [at EXCEPT ![t] = p]
  BY <1>2
<1>4. at[t].plugin # Core /\ ensured \subseteq Threads /\ (ensured # {} => once = "done")
  BY <1>2 DEF IInv, Types, Creators, OnceOK, Creating
<1> QED BY <1>2, <1>3, <1>4, OtherPlace

LEMMA RegisterIInv ==
    ASSUME IInv, NEW t \in Threads, register_plugin(t)
    PROVE  IInv'
<1>1. t = Registrar /\ t \in ensured /\ Call(t, "create", Plugin)
  BY DEF register_plugin
<1>2. /\ at[t].pc = "idle"
      /\ \E p \in Places : p.pc = "create" /\ p.plugin = Plugin /\ at' = [at EXCEPT ![t] = p]
      /\ UNCHANGED <<once, syntax_extensions, released, types, ensured>>
  BY <1>1, CallIs DEF IInv, Labels
<1>3. PICK p \in Places : p.pc = "create" /\ p.plugin = Plugin /\ at' = [at EXCEPT ![t] = p]
  BY <1>2
<1>4. /\ at' \in [Threads -> Places]
      /\ at'[t] = p
      /\ \A u \in Threads \ {t} : at'[u] = at[u]
  BY <1>3, PlacesOf DEF IInv
<1>5. Types'
  BY <1>2, <1>4 DEF IInv, Types, types
<1>6. Creators' /\ OnceOK'
  BY <1>1, <1>2, <1>3, <1>4, Lists DEF IInv, Types, Creators, OnceOK, Creating, types
<1>7. TypesOK'
  BY <1>2, <1>3, <1>4 DEF IInv, TypesOK, types
<1>8. ListOK'
  BY <1>2, <1>3, <1>4, Lists DEF IInv, Types, ListOK, Creators, Creating
<1> QED BY <1>5, <1>6, <1>7, <1>8 DEF IInv

LEMMA StartOnceIInv ==
    ASSUME IInv, NEW t \in Threads, StartOnce(t)
    PROVE  IInv'
<1>1. /\ at[t].pc = "once" /\ once = "new" /\ once' = "running" /\ flag' = TRUE /\ ~flag
      /\ UNCHANGED <<syntax_extensions, released, last, made, ensured>>
  BY DEF StartOnce, First, list, IInv, OnceOK, Types
<1> DEFINE p == [at[t] EXCEPT !.pc = "create", !.plugin = Core, !.todo = Core]
<1>2. at' = [at EXCEPT ![t] = p]
  BY <1>1 DEF StartOnce, Create, IInv, Types
<1>3. p \in Places /\ p.pc = "create" /\ p.plugin = Core
  BY Lists DEF IInv, Types, Places, Labels
<1> HIDE DEF p
<1>4. /\ at' \in [Threads -> Places]
      /\ at'[t] = p
      /\ \A u \in Threads \ {t} : at'[u] = at[u]
  BY <1>2, <1>3, PlacesOf DEF IInv
<1>5. Types'
  BY <1>1, <1>4 DEF IInv, Types
<1>6. Creators' /\ OnceOK'
  BY <1>1, <1>3, <1>4, Lists DEF IInv, Types, Creators, OnceOK, Creating
<1>7. TypesOK'
  BY <1>1, <1>3, <1>4 DEF IInv, TypesOK
<1>8. ListOK'
  BY <1>1, <1>3, <1>4, Lists DEF IInv, Types, ListOK, Creators, Creating
<1> QED BY <1>5, <1>6, <1>7, <1>8 DEF IInv

\* The place of an idle thread
LEMMA ReturnIs ==
    ASSUME Types, NEW t \in Threads, Return(t)
    PROVE  \E p \in Places : p.pc = "idle" /\ p.plugin = <<>> /\ at' = [at EXCEPT ![t] = p]
<1>1. Idle(at[t].calls) \in Places
  BY Lists DEF Types, Places, Idle, Labels
<1> QED BY <1>1 DEF Return, Idle

LEMMA PassOnceIInv ==
    ASSUME IInv, NEW t \in Threads, PassOnce(t)
    PROVE  IInv'
<1>1. /\ at[t].pc = "once" /\ once = "done" /\ Return(t) /\ ensured' = ensured \cup {t}
      /\ UNCHANGED <<once, syntax_extensions, released, types>>
  BY DEF PassOnce, Over, list
<1>2. PICK p \in Places : p.pc = "idle" /\ p.plugin = <<>> /\ at' = [at EXCEPT ![t] = p]
  BY <1>1, ReturnIs DEF IInv
<1>3. at[t].plugin # Core /\ ensured' \subseteq Threads
  BY <1>1, Lists DEF IInv, Types, Creators, Creating
<1> QED BY <1>1, <1>2, <1>3, OtherPlace

LEMMA UnlockIInv ==
    ASSUME IInv, NEW t \in Threads, Unlock(t)
    PROVE  IInv'
<1>1. /\ at[t].pc = "unlock" /\ Return(t)
      /\ IF at[t].plugin = Core THEN once' = "done" /\ ensured' = ensured \cup {t}
         ELSE UNCHANGED <<once, ensured>>
      /\ UNCHANGED <<syntax_extensions, released, types>>
  BY DEF Unlock
<1>2. PICK p \in Places : p.pc = "idle" /\ p.plugin = <<>> /\ at' = [at EXCEPT ![t] = p]
  BY <1>1, ReturnIs DEF IInv
<1>3. ensured' \subseteq Threads /\ (ensured' # {} => once' = "done")
  BY <1>1 DEF IInv, Types, OnceOK
<1> QED BY <1>1, <1>2, <1>3, OtherPlace

\* A step that leaves its thread in the same call.
LEMMA GotoIs ==
    ASSUME Types, NEW t \in Threads, NEW label \in Labels, Goto(t, label)
    PROVE  \E p \in Places : /\ p.pc = label /\ p.plugin = at[t].plugin
                             /\ p.read = at[t].read /\ at' = [at EXCEPT ![t] = p]
<1> DEFINE p == [at[t] EXCEPT !.pc = label]
<1>1. p \in Places /\ p.pc = label /\ p.plugin = at[t].plugin /\ p.read = at[t].read
  BY DEF Types, Places
<1>2. at' = [at EXCEPT ![t] = p]
  BY DEF Goto, Types
<1> QED BY <1>1, <1>2

LEMMA TakeIInv ==
    ASSUME IInv, NEW t \in Threads, Take(t)
    PROVE  IInv'
<1>1. /\ at[t].pc \in {"find", "release", "create"}
      /\ Goto(t, IF at[t].pc = "create" THEN "append" ELSE IF at[t].pc = "find" THEN "unlock" ELSE "free")
      /\ UNCHANGED <<once, syntax_extensions, released, types, ensured>>
  BY DEF Take, Wants
<1>2. CASE at[t].pc = "create"
  <2>1. PICK p \in Places : p.pc = "append" /\ p.plugin = at[t].plugin /\ at' = [at EXCEPT ![t] = p]
    BY <1>1, <1>2, GotoIs DEF IInv, Labels
  <2>2. /\ at' \in [Threads -> Places]
        /\ at'[t] = p
        /\ \A u \in Threads \ {t} : at'[u] = at[u]
    BY <2>1, PlacesOf DEF IInv
  <2>3. Types'
    BY <1>1, <2>2 DEF IInv, Types, types
  <2>4. Creators' /\ OnceOK'
    BY <1>1, <1>2, <2>1, <2>2, Lists DEF IInv, Types, Creators, OnceOK, Creating, types
  <2>5. TypesOK'
    BY <1>1, <1>2, <2>1, <2>2 DEF IInv, TypesOK, types
  <2>6. ListOK'
    BY <1>1, <1>2, <2>1, <2>2, Lists DEF IInv, Types, ListOK, Creators, Creating
  <2> QED BY <2>3, <2>4, <2>5, <2>6 DEF IInv
<1>3. CASE at[t].pc \in {"find", "release"}
  <2>1. PICK label \in {"unlock", "free"} : Goto(t, label)
    BY <1>1, <1>3
  <2>2. PICK p \in Places : p.pc = label /\ p.plugin = at[t].plugin /\ at' = [at EXCEPT ![t] = p]
    BY <2>1, GotoIs DEF IInv, Labels
  <2>3. at[t].plugin = <<>> /\ at[t].plugin # Core
    BY <1>3, Lists DEF IInv, Types, Creators, Creating
  <2>4. ensured' \subseteq Threads /\ (ensured' # {} => once' = "done")
    BY <1>1 DEF IInv, Types, OnceOK
  <2> QED BY <1>1, <2>2, <2>3, <2>4, OtherPlace
<1> QED BY <1>1, <1>2, <1>3

\* What a list is after the extensions of a plugin are appended
LEMMA AppendedList ==
    ASSUME Types, NEW plugin \in {Core, Plugin}, plugin = Core => syntax_extensions = <<>>,
           NEW new, new = syntax_extensions \o Names(plugin)
    PROVE  /\ new \in Seq(AllNames)
           /\ \A k \in DOMAIN syntax_extensions :
                 k \in DOMAIN new /\ new[k] = syntax_extensions[k]
           /\ plugin = Core => new = <<"table", "strikethrough">>
           /\ plugin = Plugin => \A k \in DOMAIN new \ DOMAIN syntax_extensions : new[k] = "plugin"
<1>1. CASE plugin = Core
  <2>1. <<"table", "strikethrough">> \in Seq(AllNames)
    BY DEF AllNames, CoreNames
  <2>2. new = <<"table", "strikethrough">>
    BY <1>1, <2>1, Lists, ConcatEmptySeq
  <2> QED BY <1>1, <2>1, <2>2, Lists, EmptySeq
<1>2. CASE plugin = Plugin
  <2> DEFINE s == syntax_extensions
  <2>1. <<"plugin">> \in Seq(AllNames) /\ Len(<<"plugin">>) = 1 /\ <<"plugin">>[1] = "plugin"
    BY DEF AllNames
  <2>2. s \in Seq(AllNames) /\ new = s \o <<"plugin">>
    BY <1>2, Lists DEF Types
  <2> HIDE DEF s
  <2>3. /\ new \in Seq(AllNames) /\ Len(new) = Len(s) + 1
        /\ \A k \in 1 .. Len(s) + 1 : new[k] = IF k <= Len(s) THEN s[k] ELSE <<"plugin">>[k - Len(s)]
    BY <2>1, <2>2, ConcatProperties
  <2>4. DOMAIN s = 1 .. Len(s) /\ DOMAIN new = 1 .. Len(s) + 1 /\ Len(s) \in Nat
    BY <2>2, <2>3, LenProperties
  <2>5. /\ \A k \in DOMAIN s : k \in DOMAIN new /\ new[k] = s[k]
        /\ \A k \in DOMAIN new \ DOMAIN s : new[k] = "plugin"
    BY <2>1, <2>3, <2>4
  <2> QED BY <1>2, <2>3, <2>5, Lists DEF s
<1> QED BY <1>1, <1>2

LEMMA AppendIInv ==
    ASSUME IInv, NEW t \in Threads, AppendExtensions(t)
    PROVE  IInv'
<1>1. /\ at[t].pc = "append" /\ syntax_extensions' = syntax_extensions \o Names(at[t].plugin)
      /\ Goto(t, "unlock") /\ UNCHANGED <<once, released, types, ensured>>
  BY DEF AppendExtensions
<1>2. PICK p \in Places : p.pc = "unlock" /\ p.plugin = at[t].plugin /\ at' = [at EXCEPT ![t] = p]
  BY <1>1, GotoIs DEF IInv, Labels
<1>3. /\ at' \in [Threads -> Places]
      /\ at'[t] = p
      /\ \A u \in Threads \ {t} : at'[u] = at[u]
  BY <1>2, PlacesOf DEF IInv
<1>4. at[t].plugin \in {Core, Plugin} /\ (at[t].plugin = Core => syntax_extensions = <<>>)
  BY <1>1 DEF IInv, Types, Places, Creators, Creating, ListOK
<1>5. /\ syntax_extensions' \in Seq(AllNames)
      /\ \A k \in DOMAIN syntax_extensions :
            k \in DOMAIN syntax_extensions' /\ syntax_extensions'[k] = syntax_extensions[k]
      /\ at[t].plugin = Core => syntax_extensions' = <<"table", "strikethrough">>
      /\ at[t].plugin = Plugin =>
            \A k \in DOMAIN syntax_extensions' \ DOMAIN syntax_extensions :
               syntax_extensions'[k] = "plugin"
  BY <1>1, <1>4, AppendedList DEF IInv
<1>6. Types'
  BY <1>1, <1>3, <1>5 DEF IInv, Types, types
<1>7. Creators' /\ OnceOK'
  BY <1>1, <1>2, <1>3, Lists DEF IInv, Types, Creators, OnceOK, Creating, types
<1>8. TypesOK'
  BY <1>1, <1>2, <1>3 DEF IInv, TypesOK, types
<1>9. ListOK'
  <2>1. CASE at[t].plugin = Core
    <3>1. /\ DOMAIN syntax_extensions' = 1 .. 2
          /\ syntax_extensions'[1] = "table" /\ syntax_extensions'[2] = "strikethrough"
      BY <1>5, <2>1
    <3>2. /\ \A name \in CoreNames :
                \E k \in DOMAIN syntax_extensions' : syntax_extensions'[k] = name
          /\ \A i, j \in DOMAIN syntax_extensions' :
                i # j => syntax_extensions'[i] # syntax_extensions'[j]
      BY <3>1 DEF CoreNames
    <3>3. once = "running" /\ \A u \in Threads \ {t} : at[u].plugin # Core
      BY <2>1 DEF IInv, Creators
    <3> QED BY <1>1, <1>2, <1>3, <3>2, <3>3 DEF ListOK, Creating
  <2>2. CASE at[t].plugin = Plugin
    <3>1. once = "done" /\ \A u \in Threads : at[u].plugin # Core
      BY <2>2 DEF IInv, Creators
    <3>2. \A u \in Threads : at'[u].plugin # Core
      BY <1>2, <1>3, <3>1
    <3>3. \A i, j \in DOMAIN syntax_extensions' :
             i # j /\ syntax_extensions'[i] \in CoreNames =>
                 syntax_extensions'[i] # syntax_extensions'[j]
      BY <1>5, <2>2 DEF IInv, ListOK, CoreNames
    <3>4. ~released => \A name \in CoreNames :
                         \E k \in DOMAIN syntax_extensions' : syntax_extensions'[k] = name
      BY <1>5, <3>1 DEF IInv, ListOK
    <3> QED BY <1>1, <3>1, <3>2, <3>3, <3>4 DEF ListOK
  <2> QED BY <1>4, <2>1, <2>2
<1> QED BY <1>6, <1>7, <1>8, <1>9 DEF IInv

LEMMA FreeIInv ==
    ASSUME IInv, NEW t \in Threads, FreeExtensions(t)
    PROVE  IInv'
<1>1. /\ at[t].pc = "free" /\ syntax_extensions' = <<>> /\ released' = TRUE
      /\ Goto(t, "unlock") /\ UNCHANGED <<once, types, ensured>>
  BY DEF FreeExtensions
<1>2. PICK p \in Places : p.pc = "unlock" /\ p.plugin = at[t].plugin /\ at' = [at EXCEPT ![t] = p]
  BY <1>1, GotoIs DEF IInv, Labels
<1>3. /\ at' \in [Threads -> Places]
      /\ at'[t] = p
      /\ \A u \in Threads \ {t} : at'[u] = at[u]
  BY <1>2, PlacesOf DEF IInv
<1>4. Types'
  BY <1>1, <1>3, EmptySeq DEF IInv, Types, types
<1>5. Creators' /\ OnceOK'
  BY <1>1, <1>2, <1>3, Lists DEF IInv, Types, Creators, OnceOK, Creating, types
<1>6. TypesOK'
  BY <1>1, <1>2, <1>3 DEF IInv, TypesOK, types
<1>7. ListOK'
  BY <1>1 DEF ListOK
<1> QED BY <1>4, <1>5, <1>6, <1>7 DEF IInv

LEMMA ReadTypeIInv ==
    ASSUME IInv, NEW t \in Threads, ReadType(t)
    PROVE  IInv'
<1> DEFINE p == [at[t] EXCEPT !.read = last, !.pc = "write"]
<1>1. /\ at[t].pc = "create" /\ at[t].todo # <<>> /\ at' = [at EXCEPT ![t] = p]
      /\ UNCHANGED <<once, syntax_extensions, released, types, ensured>>
  BY DEF ReadType, list, IInv, Types
<1>2. /\ p \in Places /\ p.pc = "write" /\ p.plugin = at[t].plugin /\ p.read = last
      /\ p.todo = at[t].todo
  BY DEF IInv, Types, Places, Labels
<1> HIDE DEF p
<1>3. /\ at' \in [Threads -> Places]
      /\ at'[t] = p
      /\ \A u \in Threads \ {t} : at'[u] = at[u]
  BY <1>1, <1>2, PlacesOf DEF IInv
<1>4. Types'
  BY <1>1, <1>3 DEF IInv, Types, types
<1>5. Creators' /\ OnceOK'
  BY <1>1, <1>2, <1>3, Lists DEF IInv, Types, Creators, OnceOK, Creating, types
<1>6. TypesOK'
  BY <1>1, <1>2, <1>3 DEF IInv, TypesOK, types
<1>7. ListOK'
  BY <1>1, <1>2, <1>3, Lists DEF IInv, Types, ListOK, Creators, Creating
<1> QED BY <1>4, <1>5, <1>6, <1>7 DEF IInv

\* Two threads never create at the same time.
LEMMA OneCreator ==
    ASSUME IInv, NEW t \in Threads, NEW u \in Threads, Creating(t), Creating(u)
    PROVE  t = u
BY DEF IInv, Types, Places, Creators

LEMMA WriteTypeIInv ==
    ASSUME IInv, NEW t \in Threads, WriteType(t)
    PROVE  IInv'
<1> DEFINE type == IF last = MAX_TYPE THEN 0 ELSE last + 1
           p == [at[t] EXCEPT !.todo = Tail(@), !.pc = "create"]
<1>1. /\ at[t].pc = "write" /\ at[t].read = last /\ at' = [at EXCEPT ![t] = p]
      /\ last' = Stored(type) /\ made' = Append(made, type)
      /\ UNCHANGED <<once, syntax_extensions, released, flag, ensured>>
  BY DEF WriteType, list, IInv, Types, TypesOK
<1>2. at[t].todo # <<>> /\ at[t].todo \in Seq(AllNames)
  BY <1>1 DEF IInv, Types, Places, TypesOK
<1>3. Tail(at[t].todo) \in Seq(AllNames)
  BY <1>2, HeadTailProperties
<1>4. p \in Places /\ p.pc = "create" /\ p.plugin = at[t].plugin
  BY <1>3 DEF IInv, Types, Places, Labels
<1>5. type \in Nat /\ last' = IF type = 0 THEN last ELSE type
  BY <1>1, RegistryAssumption DEF IInv, Types, Stored
<1>6. type = 0 \/ type = last + 1
  OBVIOUS
<1> HIDE DEF p, type
<1>7. /\ at' \in [Threads -> Places]
      /\ at'[t] = p
      /\ \A u \in Threads \ {t} : at'[u] = at[u]
  BY <1>1, <1>4, PlacesOf DEF IInv
<1>8. /\ made' \in Seq(Nat)
      /\ DOMAIN made' = 1 .. Len(made) + 1 /\ DOMAIN made = 1 .. Len(made) /\ Len(made) \in Nat
      /\ \A k \in 1 .. Len(made) : made'[k] = made[k] /\ made[k] \in Nat
      /\ made'[Len(made) + 1] = type
  BY <1>1, <1>5, AppendProperties, LenProperties, ElementOfSeq DEF IInv, Types
<1>9. Types'
  BY <1>1, <1>5, <1>7, <1>8 DEF IInv, Types
<1>10. Creators' /\ OnceOK'
  BY <1>1, <1>4, <1>7, Lists DEF IInv, Types, Creators, OnceOK, Creating
<1>11. ListOK'
  BY <1>1, <1>4, <1>7, Lists DEF IInv, Types, ListOK, Creators, Creating
<1>12. TypesOK'
  <2>1. \A u \in Threads \ {t} : at[u].pc # "write"
    BY <1>1, OneCreator DEF Creating
  <2>2. \A u \in Threads : at'[u].pc # "write"
    BY <1>4, <1>7, <2>1
  <2>3. last \in Nat /\ last' \in Nat /\ last <= last' /\ type <= last'
    BY <1>5, <1>6 DEF IInv, Types
  <2>4. \A k \in DOMAIN made' : made'[k] <= last'
    BY <1>8, <2>3 DEF IInv, TypesOK
  <2>5. \A i, j \in DOMAIN made' : i # j => made'[i] # made'[j] \/ made'[i] = 0
    <3>1. type = 0 \/ \A k \in 1 .. Len(made) : made[k] < type
      BY <1>6, <1>8, <2>3 DEF IInv, TypesOK
    <3> QED BY <1>8, <3>1 DEF IInv, TypesOK
  <2> QED BY <2>2, <2>4, <2>5 DEF TypesOK
<1> QED BY <1>9, <1>10, <1>11, <1>12 DEF IInv

LEMMA NextIInv == IInv /\ [Next]_vars => IInv'
<1> SUFFICES ASSUME IInv, [Next]_vars PROVE IInv'
  OBVIOUS
<1>1. ASSUME NEW t \in Threads,
             ensure_registered(t) \/ find_syntax_extension(t) \/ release_plugins(t)
      PROVE  IInv'
  BY <1>1, CallIInv
<1>2. ASSUME NEW t \in Threads, register_plugin(t) PROVE IInv'
  BY <1>2, RegisterIInv
<1>3. ASSUME NEW t \in Threads, StartOnce(t) \/ PassOnce(t) \/ Unlock(t) PROVE IInv'
  BY <1>3, StartOnceIInv, PassOnceIInv, UnlockIInv
<1>4. ASSUME NEW t \in Threads, ReadType(t) \/ WriteType(t) PROVE IInv'
  BY <1>4, ReadTypeIInv, WriteTypeIInv
<1>5. ASSUME NEW t \in Threads, Take(t) \/ AppendExtensions(t) \/ FreeExtensions(t) PROVE IInv'
  BY <1>5, TakeIInv, AppendIInv, FreeIInv
<1>6. CASE UNCHANGED vars
  BY <1>6 DEF vars, types, list, IInv, Types, Creators, OnceOK, ListOK, TypesOK, Creating
<1> QED BY <1>1, <1>2, <1>3, <1>4, <1>5, <1>6 DEF Next

-----------------------------------------------------------------------------
\* For any threads and any calls of them, a thread that ensure_registered has
\* returned to finds the core extensions until they are released, none of them is
\* registered twice, and no node type is handed out twice although nothing is
\* locked between the read of the last one and its write.
THEOREM RegistrySafe == Spec => []EnsuredFound
<1>1. IInv => EnsuredFound
  <2>1. ASSUME IInv, ensured # {}, ~released, NEW name \in ToSet(Core)
        PROVE  Contains(syntax_extensions, name)
    <3>1. PICK k \in DOMAIN syntax_extensions : syntax_extensions[k] = name
      BY <2>1, Lists DEF IInv, OnceOK, ListOK
    <3>2. DOMAIN syntax_extensions = 1 .. Len(syntax_extensions)
      BY <2>1, LenProperties DEF IInv, Types
    <3> QED BY <3>1, <3>2 DEF Contains
  <2> QED BY <2>1, Lists DEF EnsuredFound, IInv, ListOK, TypesOK
<1> QED BY <1>1, InitIInv, NextIInv, PTL DEF Spec
=============================================================================
