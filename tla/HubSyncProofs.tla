--------------------------- MODULE HubSyncProofs ----------------------------
(***************************************************************************)
(* Theorems about HubSync for any number of projects, aliases, commands    *)
(* and watchers: types, the two safety invariants of registry and hub, and *)
(* that HubSync implements Cache.                                          *)
(***************************************************************************)
EXTENDS HubSync, TLAPS

LEMMA TickType == clock \in Instant => Tick \in Instant
BY HubAssumption DEF Tick, Instant

LEMMA OpUpdate ==
    ASSUME TypeOK, NEW w \in Process,
           NEW o \in {Idle} \cup Syncing \cup Registering \cup Unregistering
    PROVE  [op EXCEPT ![w] = o]
              \in [Process -> {Idle} \cup Syncing \cup Registering \cup Unregistering]
BY DEF TypeOK

(***************************************************************************)
(* The kind of a process's local state tells which of the records it is.   *)
(***************************************************************************)
LEMMA OpRead ==
    ASSUME TypeOK, NEW w \in Process
    PROVE  /\ op[w].kind = "sync" => op[w] \in Syncing
           /\ op[w].kind = "register" => op[w] \in Registering
           /\ op[w].kind = "unregister" => op[w] \in Unregistering
<1>1. op[w] \in {Idle} \cup Syncing \cup Registering \cup Unregistering
  BY DEF TypeOK
<1> QED BY <1>1 DEF Idle, Syncing, Registering, Unregistering

LEMMA SyncOfType ==
    ASSUME NEW refresh \in BOOLEAN, NEW todo \in SUBSET Target
    PROVE  SyncOf(refresh, todo) \in Syncing
BY HubAssumption DEF SyncOf, Syncing, Instant

(***************************************************************************)
(* Past the first step a sync has a target, and after projects an instant. *)
(***************************************************************************)
SyncHasTarget ==
    \A w \in Process :
        op[w].kind = "sync" /\ op[w].step # "next" => op[w].target \in Target

LEMMA InitOK == Init => TypeOK /\ SyncHasTarget
<1> SUFFICES ASSUME Init PROVE TypeOK /\ SyncHasTarget
  OBVIOUS
<1>1. 0 \in Instant
  BY HubAssumption DEF Instant
<1> QED BY <1>1 DEF Init, TypeOK, SyncHasTarget, Idle, FileState

\* What a collecting process goes on with.
LEMMA CollectMoves ==
    ASSUME NEW w \in Process, NEW t \in Target, op[w] \in Syncing, SyncCollect(w, t)
    PROVE  LET gone == db'[t[2]] \in {"absent", "removed"}
           IN  \E refresh \in BOOLEAN :
                  op' = [op EXCEPT ![w] =
                           [op[w] EXCEPT !.step = IF gone THEN "project" ELSE "open",
                                         !.target = t, !.todo = @ \ {t},
                                         !.refresh = refresh,
                                         !.snap = IF gone THEN {Missing} ELSE {}]]
<1> DEFINE gone == db'[t[2]] \in {"absent", "removed"}
           step == IF gone THEN "project" ELSE "open"
           refresh == IF op[w].todo = {t} THEN FALSE ELSE op[w].refresh
           snap == IF gone THEN {Missing} ELSE {}
<1>1. refresh \in BOOLEAN
  BY DEF Syncing
<1>2. op' = [op EXCEPT ![w].step = step, ![w].target = t, ![w].todo = @ \ {t},
                       ![w].refresh = refresh, ![w].snap = snap]
  BY Zenon DEF SyncCollect
<1> HIDE DEF step, refresh, snap
<1>3. op' = [op EXCEPT ![w] = [op[w] EXCEPT !.step = step, !.target = t, !.todo = @ \ {t},
                                            !.refresh = refresh, !.snap = snap]]
  BY <1>2
<1> QED BY <1>1, <1>3, Zenon DEF step, snap

LEMMA SyncOK ==
    ASSUME TypeOK, SyncHasTarget, NEW w \in Process, SyncStep(w) \/ List(w)
               \/ \E t \in Target : Project(w, t)
    PROVE  TypeOK' /\ SyncHasTarget'
<1> DEFINE OpType == {Idle} \cup Syncing \cup Registering \cup Unregistering
<1>t. clock \in Instant /\ Tick \in Instant
  BY TickType DEF TypeOK
<1>g. ASSUME NEW o \in Syncing \cup {Idle},
             o.kind = "sync" /\ o.step # "next" => o.target \in Target,
             op' = [op EXCEPT ![w] = o]
      PROVE  op' \in [Process -> OpType] /\ SyncHasTarget'
  <2>1. op' \in [Process -> OpType]
    BY <1>g, OpUpdate
  <2> QED BY <1>g, <2>1 DEF SyncHasTarget, TypeOK
<1>1. ASSUME NEW refresh \in BOOLEAN, NEW todo \in SUBSET Target, SyncStart(w, refresh, todo)
      PROVE  TypeOK' /\ SyncHasTarget'
  <2>1. op' \in [Process -> OpType] /\ SyncHasTarget'
    BY <1>1, <1>g, SyncOfType DEF SyncStart, SyncOf
  <2> QED BY <1>1, <2>1 DEF SyncStart, TypeOK, ledgers, hub
<1>2. ASSUME SyncAll(w) \/ List(w) \/ \E t \in Target : Project(w, t)
      PROVE  TypeOK' /\ SyncHasTarget'
  <2>1. registry \in SUBSET Target
    BY DEF TypeOK
  <2>2. ASSUME NEW t \in Target, Project(w, t) PROVE TypeOK' /\ SyncHasTarget'
    BY <1>1, <2>1, <2>2 DEF Project
  <2> QED BY <1>1, <1>2, <2>1, <2>2 DEF SyncAll, List
<1>3. ASSUME NEW t \in Target, SyncSkip(w, t) PROVE TypeOK' /\ SyncHasTarget'
  <2> DEFINE o == [op[w] EXCEPT !.todo = @ \ {t}]
  <2>1. op[w] \in Syncing /\ op[w].step = "next"
    BY <1>3, OpRead DEF SyncSkip
  <2>2. o \in Syncing /\ o.step = "next"
    BY <2>1 DEF Syncing
  <2>3. op' = [op EXCEPT ![w] = o]
    BY <1>3 DEF SyncSkip
  <2>4. op' \in [Process -> OpType] /\ SyncHasTarget'
    BY <1>g, <2>2, <2>3
  <2> QED BY <1>3, <2>4 DEF SyncSkip, TypeOK, ledgers, hub
<1>r. ASSUME NEW r \in Root, db' = Opened(r) \/ UNCHANGED db
                 \/ db' = [db EXCEPT ![r] = "revived"],
             Rewritten(r) \/ UNCHANGED <<clock, written>>
      PROVE  /\ db' \in [Root -> FileState]
             /\ written' \in [Root -> Instant] /\ clock' \in Instant
  BY <1>r, <1>t DEF Rewritten, Opened, TypeOK, FileState
<1>4. ASSUME NEW t \in Target, SyncCollect(w, t) PROVE TypeOK' /\ SyncHasTarget'
  <2>1. op[w] \in Syncing /\ t[2] \in Root
    BY <1>4, OpRead DEF SyncCollect, Target
  <2>2. db' \in [Root -> FileState] /\ written' \in [Root -> Instant] /\ clock' \in Instant
    <3>1. db' = Opened(t[2]) \/ UNCHANGED db
      BY <1>4 DEF SyncCollect
    <3>2. Rewritten(t[2]) \/ UNCHANGED <<clock, written>>
      BY <1>4 DEF SyncCollect
    <3> QED BY <1>r, <2>1, <3>1, <3>2
  <2>3. PICK step \in {"project", "open"}, refresh \in BOOLEAN, snap \in SUBSET Content :
            op' = [op EXCEPT ![w] = [op[w] EXCEPT !.step = step, !.target = t,
                                                  !.todo = @ \ {t}, !.refresh = refresh,
                                                  !.snap = snap]]
    <3>1. {} \in SUBSET Content /\ {Missing} \in SUBSET Content
      BY DEF Content
    <3> QED BY <1>4, <2>1, <3>1, CollectMoves
  <2> DEFINE o == [op[w] EXCEPT !.step = step, !.target = t, !.todo = @ \ {t},
                                !.refresh = refresh, !.snap = snap]
  <2>4. o \in Syncing /\ o.target = t
    BY <2>1 DEF Syncing
  <2>5. op' \in [Process -> OpType] /\ SyncHasTarget'
    BY <1>g, <2>3, <2>4
  <2>6. UNCHANGED <<dirty, lastHub, registry, torn, hub>>
    BY <1>4 DEF SyncCollect
  <2> QED BY <2>2, <2>5, <2>6 DEF TypeOK, hub
<1>n. ASSUME op[w] \in Syncing, op' = SyncNext(w)
      PROVE  op' \in [Process -> OpType] /\ SyncHasTarget'
  <2>1. SyncOf(op[w].refresh, op[w].todo) \in Syncing
    BY <1>n, SyncOfType DEF Syncing
  <2> QED BY <1>g, <1>n, <2>1 DEF SyncNext, SyncOf
<1>s. ASSUME op[w] \in Syncing, op[w].target \in Target,
             NEW step \in {"read", "project", "row", "mark", "clean"}, NEW at \in Instant,
             NEW snap \in SUBSET Content,
             op' = [op EXCEPT ![w] = [op[w] EXCEPT !.step = step, !.at = at, !.snap = snap]]
      PROVE  op' \in [Process -> OpType] /\ SyncHasTarget'
  <2> DEFINE o == [op[w] EXCEPT !.step = step, !.at = at, !.snap = snap]
  <2>1. o \in Syncing /\ o.target \in Target
    BY <1>s DEF Syncing
  <2> QED BY <1>g, <1>s, <2>1
<1>5. ASSUME SyncProject(w) PROVE TypeOK' /\ SyncHasTarget'
  <2>1. op[w] \in Syncing /\ op[w].target \in Target /\ op[w].snap \in SUBSET Content
    BY <1>5, OpRead DEF SyncProject, SyncHasTarget, Syncing
  <2>2. hubProject' \in [Alias -> Root \cup {NoRoot}]
    BY <1>5, <2>1 DEF SyncProject, TypeOK, Target
  <2>3. op' = SyncNext(w)
            \/ op' = [op EXCEPT ![w] = [op[w] EXCEPT !.step = "row", !.at = Tick,
                                                     !.snap = op[w].snap]]
    BY <1>5, <2>1 DEF SyncProject, Syncing
  <2>4. op' \in [Process -> OpType] /\ SyncHasTarget'
    BY <1>n, <1>s, <1>t, <2>1, <2>3
  <2> QED BY <1>5, <1>t, <2>2, <2>4 DEF SyncProject, TypeOK, ledgers
<1>6. ASSUME SyncRow(w) PROVE TypeOK' /\ SyncHasTarget'
  <2>1. op[w] \in Syncing /\ op[w].target \in Target
    BY <1>6, OpRead DEF SyncRow, SyncHasTarget
  <2>2. [root |-> op[w].target[2], at |-> op[w].at, snap |-> op[w].snap] \in Row
    BY <2>1 DEF Syncing, Target, Row
  <2>3. hubRow' \in [Alias -> Row \cup {NoRow}]
    BY <1>6, <2>2 DEF SyncRow, TypeOK
  <2>4. op' = SyncNext(w)
            \/ op' = [op EXCEPT ![w] = [op[w] EXCEPT !.step = "mark", !.at = op[w].at,
                                                     !.snap = {}]]
    BY <1>6, <2>1 DEF SyncRow, Syncing
  <2>e. op[w].at \in Instant /\ {} \in SUBSET Content
    BY <2>1 DEF Syncing
  <2>5. op' \in [Process -> OpType] /\ SyncHasTarget'
    BY <1>n, <1>s, <2>1, <2>4, <2>e
  <2> QED BY <1>6, <2>3, <2>5 DEF SyncRow, TypeOK, ledgers
<1>7. ASSUME SyncMark(w) PROVE TypeOK' /\ SyncHasTarget'
  <2>1. op[w] \in Syncing /\ op[w].target \in Target /\ op[w].target[2] \in Root
    BY <1>7, OpRead DEF SyncMark, SyncHasTarget, Target
  <2>2. db' \in [Root -> FileState] /\ written' \in [Root -> Instant] /\ clock' \in Instant
    BY <1>7, <1>r, <2>1 DEF SyncMark
  <2>3. lastHub' \in [Root -> Instant]
    BY <1>7, <2>1 DEF SyncMark, TypeOK, Syncing
  <2>4. op' = [op EXCEPT ![w] = [op[w] EXCEPT !.step = "clean", !.at = 0,
                                              !.snap = op[w].snap]]
    BY <1>7, <2>1 DEF SyncMark, Syncing
  <2>a. 0 \in Instant
    BY HubAssumption DEF Instant
  <2>5. op' \in [Process -> OpType] /\ SyncHasTarget'
    BY <1>s, <2>1, <2>4, <2>a DEF Syncing
  <2> QED BY <1>7, <2>2, <2>3, <2>5 DEF SyncMark, TypeOK, hub
<1>o. ASSUME SyncOpen(w) PROVE TypeOK' /\ SyncHasTarget'
  <2>1. op[w] \in Syncing /\ op[w].target \in Target /\ op[w].target[2] \in Root
    BY <1>o, OpRead DEF SyncOpen, SyncHasTarget, Target
  <2>2. db' \in [Root -> FileState] /\ written' \in [Root -> Instant] /\ clock' \in Instant
    BY <1>o, <1>r, <2>1 DEF SyncOpen
  <2>3. PICK step \in {"read", "project"} : op' = [op EXCEPT ![w].step = step]
    BY <1>o DEF SyncOpen
  <2>4. op' = [op EXCEPT ![w] = [op[w] EXCEPT !.step = step, !.at = op[w].at,
                                              !.snap = op[w].snap]]
    BY <2>1, <2>3 DEF Syncing
  <2>5. op' \in [Process -> OpType] /\ SyncHasTarget'
    BY <1>s, <2>1, <2>4 DEF Syncing
  <2> QED BY <1>o, <2>2, <2>5 DEF SyncOpen, TypeOK, hub
<1>q. ASSUME SyncRead(w) PROVE TypeOK' /\ SyncHasTarget'
  <2>1. op[w] \in Syncing /\ op[w].target \in Target /\ op[w].target[2] \in Root
    BY <1>q, OpRead DEF SyncRead, SyncHasTarget, Target
  <2>2. PICK step \in {"read", "project"} :
            op' = [op EXCEPT ![w].step = step,
                             ![w].snap = @ \cup {written[op[w].target[2]]}]
    BY <1>q DEF SyncRead
  <2>3. PICK snap \in SUBSET Content : snap = op[w].snap \cup {written[op[w].target[2]]}
    <3>1. written[op[w].target[2]] \in Content
      BY <2>1 DEF Content, TypeOK
    <3>2. op[w].snap \in SUBSET Content
      BY <2>1 DEF Syncing
    <3> QED BY <3>1, <3>2
  <2>4. op' = [op EXCEPT ![w] = [op[w] EXCEPT !.step = step, !.at = op[w].at,
                                              !.snap = snap]]
    BY <2>1, <2>2, <2>3 DEF Syncing
  <2>5. op' \in [Process -> OpType] /\ SyncHasTarget'
    BY <1>s, <2>1, <2>4 DEF Syncing
  <2> QED BY <1>q, <2>5 DEF SyncRead, TypeOK, ledgers, hub
<1>8. ASSUME SyncClean(w) PROVE TypeOK' /\ SyncHasTarget'
  <2>1. op[w] \in Syncing /\ dirty' \in [Root -> BOOLEAN]
    BY <1>8, OpRead DEF SyncClean, TypeOK
  <2>2. op' \in [Process -> OpType] /\ SyncHasTarget'
    BY <1>8, <1>n, <2>1 DEF SyncClean
  <2> QED BY <1>8, <2>1, <2>2 DEF SyncClean, TypeOK, hub
<1>9. ASSUME SyncEnd(w) PROVE TypeOK' /\ SyncHasTarget'
  <2>1. op' \in [Process -> OpType] /\ SyncHasTarget'
    BY <1>9, <1>g DEF SyncEnd, Idle
  <2> QED BY <1>9, <2>1 DEF SyncEnd, TypeOK, ledgers, hub
<1> QED BY <1>2, <1>3, <1>4, <1>5, <1>6, <1>7, <1>8, <1>9, <1>o, <1>q DEF SyncStep

LEMMA RegistrationOK ==
    ASSUME TypeOK, SyncHasTarget, NEW w \in Process,
           \/ \E a \in Alias, r \in Root : Register(w, a, r)
           \/ \E key \in Alias \cup Root : Unregister(w, key)
           \/ RegistryTruncate(w) \/ RegistryWrite(w) \/ RegisterProject(w)
           \/ UnregisterRow(w) \/ UnregisterProject(w)
    PROVE  TypeOK' /\ SyncHasTarget'
<1> DEFINE OpType == {Idle} \cup Syncing \cup Registering \cup Unregistering
<1>g. ASSUME NEW o \in OpType, o.kind # "sync" \/ o.step = "next",
             op' = [op EXCEPT ![w] = o]
      PROVE  op' \in [Process -> OpType] /\ SyncHasTarget'
  <2>1. op' \in [Process -> OpType]
    BY <1>g, OpUpdate
  <2> QED BY <1>g, <2>1 DEF SyncHasTarget, TypeOK
<1>1. ASSUME NEW a \in Alias, NEW r \in Root, Register(w, a, r)
      PROVE  TypeOK' /\ SyncHasTarget'
  <2> DEFINE o == [kind |-> "register", step |-> "truncate", target |-> <<a, r>>,
                   exists |-> Exists(r),
                   file |-> {t \in registry : t[1] # a /\ t[2] # r} \cup {<<a, r>>}]
  <2>1. o \in Registering
    BY DEF Registering, Target, TypeOK, Exists
  <2>2. op' \in [Process -> OpType] /\ SyncHasTarget'
    BY <1>1, <1>g, <2>1 DEF Register
  <2> QED BY <1>1, <2>2 DEF Register, TypeOK, ledgers, hub
<1>2. ASSUME NEW key \in Alias \cup Root, Unregister(w, key)
      PROVE  TypeOK' /\ SyncHasTarget'
  <2> DEFINE o == [kind |-> "unregister", step |-> "truncate", key |-> key,
                   file |-> registry \ {t \in registry : key \in {t[1], t[2]}}]
  <2>1. o \in Unregistering
    BY DEF Unregistering, TypeOK
  <2>2. op' \in [Process -> OpType] /\ SyncHasTarget'
    BY <1>2, <1>g, <2>1 DEF Unregister
  <2> QED BY <1>2, <2>2 DEF Unregister, TypeOK, ledgers, hub
<1>s. ASSUME op[w] \in Registering \cup Unregistering, NEW step,
             [op[w] EXCEPT !.step = step] \in Registering \cup Unregistering,
             op' = [op EXCEPT ![w].step = step]
      PROVE  op' \in [Process -> OpType] /\ SyncHasTarget'
  <2> DEFINE o == [op[w] EXCEPT !.step = step]
  <2>1. o \in OpType /\ o.kind # "sync"
    BY <1>s DEF Registering, Unregistering
  <2>2. op' = [op EXCEPT ![w] = o]
    BY <1>s
  <2> QED BY <1>g, <2>1, <2>2
<1>3. ASSUME RegistryTruncate(w) PROVE TypeOK' /\ SyncHasTarget'
  <2>1. op[w] \in Registering \cup Unregistering
    BY <1>3, OpRead DEF RegistryTruncate
  <2>2. [op[w] EXCEPT !.step = "write"] \in Registering \cup Unregistering
    BY <2>1 DEF Registering, Unregistering
  <2>3. op' \in [Process -> OpType] /\ SyncHasTarget'
    BY <1>3, <1>s, <2>1, <2>2 DEF RegistryTruncate
  <2> QED BY <1>3, <2>3 DEF RegistryTruncate, TypeOK, ledgers, hub
<1>4. ASSUME RegistryWrite(w) PROVE TypeOK' /\ SyncHasTarget'
  <2>1. op[w] \in Registering \cup Unregistering
    BY <1>4, OpRead DEF RegistryWrite
  <2> DEFINE step == IF op[w].kind = "register" THEN "project" ELSE "row"
  <2>2. [op[w] EXCEPT !.step = step] \in Registering \cup Unregistering
    BY <2>1 DEF Registering, Unregistering
  <2>3. op' \in [Process -> OpType] /\ SyncHasTarget'
    BY <1>4, <1>s, <2>1, <2>2 DEF RegistryWrite
  <2>4. PICK left \in Leftover(op[w].file) : registry' = op[w].file \cup left
    BY <1>4 DEF RegistryWrite
  <2>5. left \in SUBSET Target
    BY DEF Leftover, TypeOK
  <2>6. registry' \in SUBSET Target
    BY <2>1, <2>4, <2>5 DEF Registering, Unregistering
  <2> QED BY <1>4, <2>3, <2>6 DEF RegistryWrite, TypeOK, ledgers, hub
<1>5. ASSUME RegisterProject(w) PROVE TypeOK' /\ SyncHasTarget'
  <2>1. op[w] \in Registering /\ op[w].target[1] \in Alias /\ op[w].target[2] \in Root
    BY <1>5, OpRead DEF RegisterProject, Registering, Target
  <2>2. hubProject' \in [Alias -> Root \cup {NoRoot}]
    BY <1>5, <2>1 DEF RegisterProject, TypeOK
  <2> DEFINE o == SyncOf(FALSE, {<<op[w].target[1], op[w].target[2]>>})
  <2>3. o \in Syncing /\ o.step = "next" /\ Idle.kind # "sync"
    <3>1. {<<op[w].target[1], op[w].target[2]>>} \in SUBSET Target
      BY <2>1 DEF Target
    <3>2. o \in Syncing
      BY <3>1, SyncOfType
    <3>3. o.step = "next"
      BY DEF SyncOf
    <3>4. Idle.kind # "sync"
      BY DEF Idle
    <3> QED BY <3>2, <3>3, <3>4
  <2>4. op' = [op EXCEPT ![w] = Idle] \/ op' = [op EXCEPT ![w] = o]
    BY <1>5 DEF RegisterProject
  <2>5. op' \in [Process -> OpType] /\ SyncHasTarget'
    BY <1>g, <2>3, <2>4
  <2> QED BY <1>5, <2>2, <2>5 DEF RegisterProject, TypeOK, ledgers
<1>6. ASSUME UnregisterRow(w) PROVE TypeOK' /\ SyncHasTarget'
  <2>1. op[w] \in Unregistering
    BY <1>6, OpRead DEF UnregisterRow
  <2>2. [op[w] EXCEPT !.step = "project"] \in Registering \cup Unregistering
    BY <2>1 DEF Unregistering
  <2>3. op' \in [Process -> OpType] /\ SyncHasTarget'
    BY <1>6, <1>s, <2>1, <2>2 DEF UnregisterRow
  <2> QED BY <1>6, <2>3 DEF UnregisterRow, TypeOK, ledgers
<1>7. ASSUME UnregisterProject(w) PROVE TypeOK' /\ SyncHasTarget'
  <2>1. op' \in [Process -> OpType] /\ SyncHasTarget'
    BY <1>7, <1>g DEF UnregisterProject, Idle
  <2> QED BY <1>7, <2>1 DEF UnregisterProject, TypeOK, ledgers
<1> QED BY <1>1, <1>2, <1>3, <1>4, <1>5, <1>6, <1>7

LEMMA TypeNext == TypeOK /\ SyncHasTarget /\ [Next]_vars => TypeOK' /\ SyncHasTarget'
<1> SUFFICES ASSUME TypeOK, SyncHasTarget, [Next]_vars PROVE TypeOK' /\ SyncHasTarget'
  OBVIOUS
<1>1. CASE UserStep
  <2>1. Tick \in Instant
    BY TickType DEF TypeOK
  <2>2. SyncHasTarget'
    BY <1>1 DEF UserStep, LocalWrite, InitSource, DeleteSource, SyncHasTarget
  <2>3. ASSUME NEW r \in Root, LocalWrite(r) \/ InitSource(r) PROVE TypeOK'
    BY <2>1, <2>3 DEF LocalWrite, InitSource, TypeOK, FileState, hub
  <2>4. ASSUME NEW r \in Root, NEW how \in {"absent", "removed"}, DeleteSource(r, how)
        PROVE  TypeOK'
    <3>1. 0 \in Instant
      BY HubAssumption DEF Instant
    <3> QED BY <2>4, <3>1 DEF DeleteSource, TypeOK, FileState, hub
  <2> QED BY <1>1, <2>2, <2>3, <2>4 DEF UserStep
<1>2. ASSUME NEW w \in Command, CommandStep(w) PROVE TypeOK' /\ SyncHasTarget'
  <2>1. w \in Process
    BY DEF Process
  <2>2. ASSUME Crash(w) PROVE TypeOK' /\ SyncHasTarget'
    <3>1. op' \in [Process -> {Idle} \cup Syncing \cup Registering \cup Unregistering]
      BY <2>1, <2>2, OpUpdate DEF Crash
    <3>2. SyncHasTarget'
      BY <2>1, <2>2, <3>1 DEF Crash, SyncHasTarget, TypeOK, Idle
    <3> QED BY <2>2, <3>1, <3>2 DEF Crash, TypeOK, ledgers, hub
  <2> QED BY <1>2, <2>1, <2>2, SyncOK, RegistrationOK DEF CommandStep
<1>3. ASSUME NEW w \in Watcher, SyncStep(w) PROVE TypeOK' /\ SyncHasTarget'
  BY <1>3, SyncOK DEF Process
<1>4. CASE UNCHANGED vars
  BY <1>4 DEF vars, TypeOK, SyncHasTarget
<1> QED BY <1>1, <1>2, <1>3, <1>4 DEF Next

(***************************************************************************)
(* Every reachable state of ledgers, registry, hub and processes is well   *)
(* typed, and a sync past its first step knows its project.                *)
(***************************************************************************)
THEOREM TypeCorrect == Spec => [](TypeOK /\ SyncHasTarget)
<1>1. Init => TypeOK /\ SyncHasTarget
  BY InitOK
<1>2. TypeOK /\ SyncHasTarget /\ [Next]_vars => TypeOK' /\ SyncHasTarget'
  BY TypeNext
<1> QED BY <1>1, <1>2, PTL DEF Spec

-----------------------------------------------------------------------------
(* The registry.                                                           *)

Injective(file) == \A t, u \in file : t[1] = u[1] \/ t[2] = u[2] => t = u

\* What a process is about to write to the registry names no project twice either.
FilesInjective ==
    \A w \in Process : op[w].kind \in {"register", "unregister"} => Injective(op[w].file)

RegistrySound == Injective(registry) /\ FilesInjective

\* Until a write has met a file that another process had filled.
RegistryInv == ~torn => RegistrySound

(***************************************************************************)
(* A process that goes from one local state to another leaves the promise  *)
(* about files intact when its new state keeps it.                         *)
(***************************************************************************)
LEMMA FilesUpdate ==
    ASSUME TypeOK, FilesInjective, NEW w \in Process, NEW o,
           op' = [op EXCEPT ![w] = o],
           o.kind \in {"register", "unregister"} => Injective(o.file)
    PROVE  FilesInjective'
BY DEF FilesInjective, TypeOK, Injective

LEMMA RegistryInit == Init => RegistryInv
BY DEF Init, RegistryInv, RegistrySound, FilesInjective, Injective, Idle

LEMMA SoundNext ==
    TypeOK /\ SyncHasTarget /\ RegistrySound /\ [Next]_vars /\ ~torn' => RegistrySound'
<1> SUFFICES ASSUME TypeOK, SyncHasTarget, RegistrySound, [Next]_vars, ~torn'
             PROVE  RegistrySound'
  OBVIOUS
<1>g. ASSUME NEW w \in Process, NEW o, op' = [op EXCEPT ![w] = o], UNCHANGED registry,
             o.kind \in {"register", "unregister"} => Injective(o.file)
      PROVE  RegistrySound'
  BY <1>g, FilesUpdate DEF RegistrySound, Injective
<1>1. CASE UserStep
  BY <1>1 DEF UserStep, LocalWrite, InitSource, DeleteSource,
              RegistrySound, FilesInjective, Injective
<1>2. ASSUME NEW w \in Process, SyncStep(w) \/ List(w) \/ (\E t \in Target : Project(w, t))
      PROVE  RegistrySound'
  <2>1. UNCHANGED registry
    BY <1>2 DEF SyncStep, SyncAll, SyncStart, SyncSkip, SyncCollect, SyncOpen, SyncRead,
                SyncProject, SyncRow,
                SyncMark, SyncClean, SyncEnd, List, Project
  <2>2. \E o : op' = [op EXCEPT ![w] = o] /\ o.kind \notin {"register", "unregister"}
    <3>1. ASSUME NEW refresh, NEW todo, SyncStart(w, refresh, todo)
          PROVE  \E o : op' = [op EXCEPT ![w] = o] /\ o.kind \notin {"register", "unregister"}
      <4>1. SyncOf(refresh, todo).kind = "sync"
        BY DEF SyncOf
      <4> QED BY <3>1, <4>1 DEF SyncStart
    <3>2. ASSUME SyncEnd(w)
          PROVE  \E o : op' = [op EXCEPT ![w] = o] /\ o.kind \notin {"register", "unregister"}
      <4>1. Idle.kind = "idle" /\ op' = [op EXCEPT ![w] = Idle]
        BY <3>2 DEF SyncEnd, Idle
      <4> QED BY <4>1
    <3>3. ASSUME op[w].kind = "sync", op' = SyncNext(w)
          PROVE  \E o : op' = [op EXCEPT ![w] = o] /\ o.kind \notin {"register", "unregister"}
      <4>1. SyncOf(op[w].refresh, op[w].todo).kind = "sync"
        BY DEF SyncOf
      <4> QED BY <3>3, <4>1 DEF SyncNext
    <3>4. ASSUME SyncOpen(w) \/ SyncRead(w)
                   \/ \E t \in Target : SyncSkip(w, t) \/ SyncCollect(w, t)
          PROVE  \E o : op' = [op EXCEPT ![w] = o] /\ o.kind \notin {"register", "unregister"}
      <4>1. op[w] \in Syncing
        BY <3>4, OpRead DEF SyncSkip, SyncCollect, SyncOpen, SyncRead
      <4>2. op' \in [Process -> {Idle} \cup Syncing \cup Registering \cup Unregistering]
        BY <1>2, SyncOK DEF TypeOK
      <4>3. op'[w].kind = "sync" /\ op' = [op EXCEPT ![w] = op'[w]]
        <5>1. CASE SyncOpen(w) \/ SyncRead(w)
          BY <4>1, <4>2, <5>1 DEF SyncOpen, SyncRead, Syncing, TypeOK
        <5>2. CASE \E t \in Target : SyncSkip(w, t)
          BY <4>1, <4>2, <5>2 DEF SyncSkip, Syncing, TypeOK
        <5>3. ASSUME NEW t \in Target, SyncCollect(w, t)
              PROVE  op'[w].kind = "sync" /\ op' = [op EXCEPT ![w] = op'[w]]
          <6> DEFINE gone == db'[t[2]] \in {"absent", "removed"}
                     step == IF gone THEN "project" ELSE "open"
                     snap == IF gone THEN {Missing} ELSE {}
          <6>1. PICK refresh \in BOOLEAN :
                    op' = [op EXCEPT ![w] = [op[w] EXCEPT !.step = step, !.target = t,
                              !.todo = @ \ {t}, !.refresh = refresh, !.snap = snap]]
            BY <4>1, <5>3, CollectMoves
          <6> HIDE DEF step, snap
          <6> QED BY <4>1, <4>2, <6>1 DEF Syncing, TypeOK
        <5> QED BY <3>4, <5>1, <5>2, <5>3
      <4> QED BY <4>3
    <3>5. ASSUME SyncProject(w) \/ SyncRow(w) \/ SyncMark(w) \/ SyncClean(w)
          PROVE  \E o : op' = [op EXCEPT ![w] = o] /\ o.kind \notin {"register", "unregister"}
      <4>1. op[w].kind = "sync" /\ op[w] \in Syncing
        BY <3>5, OpRead DEF SyncProject, SyncRow, SyncMark, SyncClean
      <4>2. CASE op' = SyncNext(w)
        BY <3>3, <4>1, <4>2
      <4>3. CASE op' # SyncNext(w)
        <5>1. PICK step, at : op' = [op EXCEPT ![w] = [op[w] EXCEPT !.step = step, !.at = at]]
          <6>1. CASE SyncProject(w)
            <7>1. op' = [op EXCEPT ![w].step = "row", ![w].at = Tick]
              BY <4>3, <6>1 DEF SyncProject
            <7>2. op' = [op EXCEPT ![w] = [op[w] EXCEPT !.step = "row", !.at = Tick]]
              BY <7>1
            <7> QED BY <7>2
          <6>2. CASE SyncRow(w) \/ SyncMark(w)
            <7>1. PICK step \in {"mark", "clean"} :
                      op' = [op EXCEPT ![w] = [op[w] EXCEPT !.step = step]]
              <8>1. \/ op' = [op EXCEPT ![w].step = "mark"]
                    \/ op' = [op EXCEPT ![w].step = "clean"]
                BY <4>3, <6>2 DEF SyncRow, SyncMark
              <8> QED BY <8>1
            <7>2. [op[w] EXCEPT !.step = step] = [op[w] EXCEPT !.step = step, !.at = op[w].at]
              BY <4>1 DEF Syncing
            <7> QED BY <7>1, <7>2
          <6> QED BY <3>5, <4>3, <6>1, <6>2 DEF SyncClean
        <5>2. [op[w] EXCEPT !.step = step, !.at = at].kind = "sync"
          BY <4>1 DEF Syncing
        <5> QED BY <5>1, <5>2
      <4> QED BY <4>2, <4>3
    <3> QED BY <1>2, <3>1, <3>2, <3>4, <3>5 DEF SyncStep, SyncAll, List, Project
  <2> QED BY <1>g, <2>1, <2>2
<1>3. ASSUME NEW w \in Process, NEW a \in Alias, NEW r \in Root, Register(w, a, r)
      PROVE  RegistrySound'
  <2> DEFINE file == {t \in registry : t[1] # a /\ t[2] # r} \cup {<<a, r>>}
             o == [kind |-> "register", step |-> "truncate", target |-> <<a, r>>,
                   exists |-> Exists(r), file |-> file]
  <2>1. Injective(file)
    BY DEF RegistrySound, Injective
  <2>2. op' = [op EXCEPT ![w] = o] /\ UNCHANGED registry
    BY <1>3 DEF Register
  <2> QED BY <1>g, <2>1, <2>2
<1>4. ASSUME NEW w \in Process, NEW key, Unregister(w, key) PROVE RegistrySound'
  <2> DEFINE file == registry \ {t \in registry : key \in {t[1], t[2]}}
             o == [kind |-> "unregister", step |-> "truncate", key |-> key, file |-> file]
  <2>1. Injective(file)
    BY DEF RegistrySound, Injective
  <2>2. op' = [op EXCEPT ![w] = o] /\ UNCHANGED registry
    BY <1>4 DEF Unregister
  <2> QED BY <1>g, <2>1, <2>2
<1>5. ASSUME NEW w \in Process,
             RegistryTruncate(w) \/ RegistryWrite(w) \/ UnregisterRow(w)
      PROVE  RegistrySound'
  <2>1. op[w].kind \in {"register", "unregister"} /\ op[w] \in Registering \cup Unregistering
    BY <1>5, OpRead DEF RegistryTruncate, RegistryWrite, UnregisterRow
  <2>2. PICK step : op' = [op EXCEPT ![w] = [op[w] EXCEPT !.step = step]]
    BY <1>5 DEF RegistryTruncate, RegistryWrite, UnregisterRow
  <2>3. [op[w] EXCEPT !.step = step].file = op[w].file
    BY <2>1 DEF Registering, Unregistering
  <2>4. Injective(op[w].file)
    BY <2>1 DEF RegistrySound, FilesInjective
  <2>5. FilesInjective'
    BY <2>2, <2>3, <2>4, FilesUpdate DEF RegistrySound
  <2>6. registry' \in {registry, {}, op[w].file}
    <3>1. CASE RegistryWrite(w)
      <4>1. registry = {}
        BY <3>1 DEF RegistryWrite
      <4>2. Leftover(op[w].file) = {{}}
        BY <4>1 DEF Leftover
      <4> QED BY <3>1, <4>2 DEF RegistryWrite
    <3>2. CASE RegistryTruncate(w) \/ UnregisterRow(w)
      BY <3>2 DEF RegistryTruncate, UnregisterRow
    <3> QED BY <1>5, <3>1, <3>2
  <2> QED BY <2>4, <2>5, <2>6 DEF RegistrySound, Injective
<1>6. ASSUME NEW w \in Process, RegisterProject(w) \/ UnregisterProject(w) \/ Crash(w)
      PROVE  RegistrySound'
  <2>1. Idle.kind = "idle"
    BY DEF Idle
  <2>2. \A todo : SyncOf(FALSE, todo).kind = "sync"
    BY DEF SyncOf
  <2>3. UNCHANGED registry
    BY <1>6 DEF RegisterProject, UnregisterProject, Crash
  <2>4. PICK o : op' = [op EXCEPT ![w] = o] /\ (o = Idle \/ \E todo : o = SyncOf(FALSE, todo))
    BY <1>6 DEF RegisterProject, UnregisterProject, Crash
  <2> QED BY <1>g, <2>1, <2>2, <2>3, <2>4
<1>7. CASE UNCHANGED vars
  BY <1>7 DEF vars, RegistrySound, FilesInjective, Injective
<1> QED BY <1>1, <1>2, <1>3, <1>4, <1>5, <1>6, <1>7 DEF Next, CommandStep, Process

LEMMA TornStays == [Next]_vars => (torn => torn')
<1> SUFFICES ASSUME [Next]_vars PROVE torn => torn'
  OBVIOUS
<1>1. CASE UserStep \/ UNCHANGED vars
  BY <1>1 DEF vars, UserStep, LocalWrite, InitSource, DeleteSource
<1>2. ASSUME NEW w \in Process, SyncStep(w) \/ List(w) \/ (\E t \in Target : Project(w, t))
      PROVE  UNCHANGED torn
  BY <1>2 DEF SyncStep, SyncAll, SyncStart, SyncSkip, SyncCollect, SyncOpen, SyncRead,
              SyncProject, SyncRow, SyncMark, SyncClean, SyncEnd, List, Project
<1>3. ASSUME NEW w \in Process, RegistryWrite(w) PROVE torn => torn'
  BY <1>3 DEF RegistryWrite
<1>4. ASSUME NEW w \in Process,
             \/ \E a \in Alias, r \in Root : Register(w, a, r)
             \/ \E key \in Alias \cup Root : Unregister(w, key)
             \/ RegistryTruncate(w) \/ RegisterProject(w) \/ UnregisterRow(w)
             \/ UnregisterProject(w) \/ Crash(w)
      PROVE  UNCHANGED torn
  BY <1>4 DEF Register, Unregister, RegistryTruncate, RegisterProject, UnregisterRow,
              UnregisterProject, Crash
<1> QED BY <1>1, <1>2, <1>3, <1>4 DEF Next, CommandStep, Process

LEMMA RegistryNext ==
    TypeOK /\ SyncHasTarget /\ RegistryInv /\ [Next]_vars => RegistryInv'
BY SoundNext, TornStays DEF RegistryInv

(***************************************************************************)
(* Aliases and roots stay unique in the registry file for any number of    *)
(* processes that read it at once, lose each other's entries or die while  *)
(* they rewrite it, until one of them writes to a file that another has    *)
(* filled since it was truncated (registry.go:77).                         *)
(***************************************************************************)
THEOREM RegistryCorrect == Spec => []RegistryInjective
<1>1. Init => RegistryInv
  BY RegistryInit
<1>2. TypeOK /\ SyncHasTarget /\ RegistryInv /\ [Next]_vars => RegistryInv'
  BY RegistryNext
<1>3. RegistryInv => RegistryInjective
  BY DEF RegistryInv, RegistrySound, Injective, RegistryInjective
<1> QED BY <1>1, <1>2, <1>3, TypeCorrect, PTL DEF Spec

-----------------------------------------------------------------------------
(* The hub.                                                                *)

LEMMA RowsNext ==
    TypeOK /\ SyncHasTarget /\ RowsHaveProject /\ [Next]_vars => RowsHaveProject'
<1> SUFFICES ASSUME TypeOK, SyncHasTarget, RowsHaveProject, [Next]_vars
             PROVE  RowsHaveProject'
  OBVIOUS
<1>g. ASSUME UNCHANGED hub PROVE RowsHaveProject'
  BY <1>g DEF hub, RowsHaveProject
<1>1. CASE UserStep
  BY <1>g, <1>1 DEF UserStep, LocalWrite, InitSource, DeleteSource
<1>2. ASSUME NEW w \in Process, SyncProject(w) PROVE RowsHaveProject'
  <2>1. op[w].target \in Target
    BY <1>2 DEF SyncHasTarget, SyncProject
  <2> QED BY <1>2, <2>1, HubAssumption DEF SyncProject, RowsHaveProject, TypeOK, Target
<1>3. ASSUME NEW w \in Process, SyncRow(w) PROVE RowsHaveProject'
  BY <1>3 DEF SyncRow, RowsHaveProject, TypeOK
<1>4. ASSUME NEW w \in Process, RegisterProject(w) PROVE RowsHaveProject'
  <2>1. op[w].target[2] \in Root
    BY <1>4, OpRead DEF RegisterProject, Registering, Target
  <2> QED BY <1>4, <2>1, HubAssumption DEF RegisterProject, RowsHaveProject, TypeOK
<1>5. ASSUME NEW w \in Process, UnregisterRow(w) \/ UnregisterProject(w) PROVE RowsHaveProject'
  BY <1>5 DEF UnregisterRow, UnregisterProject, RowsHaveProject
<1>6. ASSUME NEW w \in Process,
             \/ SyncStep(w) /\ ~SyncProject(w) /\ ~SyncRow(w)
             \/ List(w) \/ \E t \in Target : Project(w, t)
             \/ \E a \in Alias, r \in Root : Register(w, a, r)
             \/ \E key \in Alias \cup Root : Unregister(w, key)
             \/ RegistryTruncate(w) \/ RegistryWrite(w) \/ Crash(w)
      PROVE  RowsHaveProject'
  BY <1>6, <1>g DEF SyncStep, SyncAll, SyncStart, SyncSkip, SyncCollect, SyncOpen,
                    SyncRead, SyncMark, SyncClean, SyncEnd, List, Project, Register, Unregister, RegistryTruncate,
                    RegistryWrite, Crash
<1>7. CASE UNCHANGED vars
  BY <1>7, <1>g DEF vars, hub
<1> QED BY <1>1, <1>2, <1>3, <1>4, <1>5, <1>6, <1>7 DEF Next, CommandStep, Process

(***************************************************************************)
(* The hub never holds a snapshot row without its projects row, however    *)
(* syncs, registrations and unregistrations interleave.                    *)
(***************************************************************************)
THEOREM RowsCorrect == Spec => []RowsHaveProject
<1>1. Init => RowsHaveProject
  BY DEF Init, RowsHaveProject
<1>2. TypeOK /\ SyncHasTarget /\ RowsHaveProject /\ [Next]_vars => RowsHaveProject'
  BY RowsNext
<1> QED BY <1>1, <1>2, TypeCorrect, PTL DEF Spec

-----------------------------------------------------------------------------
(* The promise of the hub.  A step of HubSync is first sorted by what it   *)
(* does to ledgers, syncs under way and shown rows; the effects are then   *)
(* mapped to the actions of Cache.                                         *)

\* The step leaves the fetch of u as it is.
Kept(u) ==
    /\ Fetching(u)' <=> Fetching(u)
    /\ Fetching(u) => op'[u].target = op[u].target /\ op'[u].snap = op[u].snap

OthersKept(w) == \A u \in Process \ {w} : Kept(u)

\* No ledger's content, nor whether it is there, changes; or that of r only.
LedgersStay == written' = written /\ There' = There
OnlyLedger(r) ==
    \E is \in BOOLEAN, v \in Instant :
        /\ There' = [There EXCEPT ![r] = is]
        /\ written' = [written EXCEPT ![r] = v]

Stays == LedgersStay /\ Shown' = Shown /\ \A u \in Process : Kept(u)

Changes(r) == OnlyLedger(r) /\ Shown' = Shown /\ \A u \in Process : Kept(u)

Begins(w, t) ==
    /\ ~Fetching(w) /\ Fetching(w)'
    /\ op'[w].target = t
    /\ op'[w].snap = IF There'[t[2]] THEN {} ELSE {Missing}
    /\ OnlyLedger(t[2]) /\ Shown' = Shown
    /\ OthersKept(w)

Sees(w) ==
    /\ Fetching(w) /\ Fetching(w)'
    /\ op'[w].target = op[w].target
    /\ op'[w].snap = op[w].snap \cup {written[op[w].target[2]]}
    /\ LedgersStay /\ Shown' = Shown
    /\ OthersKept(w)

Ends(w) ==
    /\ Fetching(w) /\ ~Fetching(w)'
    /\ LedgersStay
    /\ \/ Shown' = Shown
       \/ Shown' = [Shown EXCEPT ![op[w].target[1]] = {<<op[w].target[2], op[w].snap>>}]
    /\ OthersKept(w)

Forgets(a) ==
    /\ LedgersStay
    /\ Shown' = [Shown EXCEPT ![a] = {}]
    /\ \A u \in Process : Kept(u)

Effect ==
    \/ Stays
    \/ \E r \in Root : Changes(r)
    \/ \E w \in Process, t \in Target : Begins(w, t)
    \/ \E w \in Process : Sees(w) \/ Ends(w)
    \/ \E a \in Alias : Forgets(a)

LEMMA LedgersAlone == UNCHANGED <<db, written>> => LedgersStay
BY DEF LedgersStay, There, Exists

LEMMA LedgerAlone ==
    ASSUME TypeOK, TypeOK', NEW r \in Root,
           \A s \in Root \ {r} : db'[s] = db[s] /\ written'[s] = written[s]
    PROVE  OnlyLedger(r)
<1>1. ASSUME NEW s \in Root \ {r} PROVE There'[s] = There[s]
  <2>1. db'[s] = db[s]
    OBVIOUS
  <2>2. (db'[s] \in {"present", "empty", "revived"}) = (db[s] \in {"present", "empty", "revived"})
    BY <2>1, Zenon
  <2>3. There'[s] = (db'[s] \in {"present", "empty", "revived"})
    BY Zenon DEF There, Exists
  <2>4. There[s] = (db[s] \in {"present", "empty", "revived"})
    BY Zenon DEF There, Exists
  <2> QED BY <2>2, <2>3, <2>4, Zenon
<1>2. There' \in [Root -> BOOLEAN]
  BY DEF There, Exists
<1>3. There' = [There EXCEPT ![r] = There'[r]] /\ There'[r] \in BOOLEAN
  BY <1>1, <1>2 DEF There
<1>4. written' = [written EXCEPT ![r] = written'[r]] /\ written'[r] \in Instant
  BY DEF TypeOK
<1> QED BY <1>3, <1>4 DEF OnlyLedger

LEMMA ShownStays == UNCHANGED hubRow => Shown' = Shown
BY DEF Shown

LEMMA KeptUpdate ==
    ASSUME TypeOK, NEW w \in Process, NEW o, op' = [op EXCEPT ![w] = o]
    PROVE  op'[w] = o /\ OthersKept(w)
BY DEF TypeOK, OthersKept, Kept, Fetching

LEMMA KeptStays == UNCHANGED op => \A u \in Process : Kept(u)
BY DEF Kept, Fetching

(***************************************************************************)
(* A process that is not fetching before the step nor after it.            *)
(***************************************************************************)
LEMMA KeptIdle ==
    ASSUME TypeOK, NEW w \in Process, NEW o, op' = [op EXCEPT ![w] = o], ~Fetching(w),
           ~(o.kind = "sync" /\ o.step \in {"open", "read", "project", "row"})
    PROVE  \A u \in Process : Kept(u)
<1>1. op'[w] = o /\ OthersKept(w)
  BY KeptUpdate
<1>2. Kept(w)
  BY <1>1 DEF Kept, Fetching
<1> QED BY <1>1, <1>2 DEF OthersKept

LEMMA UserEffect ==
    ASSUME TypeOK, TypeOK', UserStep
    PROVE  \E r \in Root : Changes(r)
<1>1. PICK r \in Root : \/ LocalWrite(r) \/ InitSource(r)
                        \/ \E how \in {"absent", "removed"} : DeleteSource(r, how)
  BY DEF UserStep
<1>2. UNCHANGED <<op, hubRow>>
  BY <1>1 DEF LocalWrite, InitSource, DeleteSource, hub
<1>3. \A s \in Root \ {r} : db'[s] = db[s] /\ written'[s] = written[s]
  BY <1>1 DEF LocalWrite, InitSource, DeleteSource, TypeOK
<1>4. Changes(r)
  BY <1>2, <1>3, LedgerAlone, ShownStays, KeptStays DEF Changes
<1> QED BY <1>4

(***************************************************************************)
(* The steps that touch neither a ledger's content, nor a fetch, nor a     *)
(* row.                                                                    *)
(***************************************************************************)
LEMMA QuietEffect ==
    ASSUME TypeOK, SyncHasTarget, NEW w \in Process,
           \/ SyncAll(w) \/ List(w) \/ (\E t \in Target : Project(w, t) \/ SyncSkip(w, t))
           \/ SyncClean(w) \/ SyncEnd(w)
           \/ (\E a \in Alias, r \in Root : Register(w, a, r))
           \/ (\E key \in Alias \cup Root : Unregister(w, key))
           \/ RegistryTruncate(w) \/ RegistryWrite(w) \/ RegisterProject(w)
           \/ UnregisterProject(w)
    PROVE  Stays
<1>1. UNCHANGED <<db, written, hubRow>>
  BY DEF SyncAll, List, Project, SyncStart, SyncSkip, SyncClean, SyncEnd, Register,
         Unregister, RegistryTruncate, RegistryWrite, RegisterProject, UnregisterProject,
         ledgers, hub
<1>2. ~Fetching(w)
  <2>1. \/ op[w] = Idle
        \/ op[w].kind \in {"register", "unregister"}
        \/ op[w].step \in {"next", "clean"}
    BY DEF SyncAll, List, Project, SyncStart, SyncSkip, SyncClean, SyncEnd, Register,
           Unregister, RegistryTruncate, RegistryWrite, RegisterProject, UnregisterProject
  <2> QED BY <2>1 DEF Fetching, Idle
<1>k. ASSUME NEW o, op' = [op EXCEPT ![w] = o],
             o.kind # "sync" \/ o.step \notin {"open", "read", "project", "row"}
      PROVE  \A u \in Process : Kept(u)
  BY <1>2, <1>k, KeptIdle
<1>s. \A refresh, todo : SyncOf(refresh, todo).step = "next"
  BY DEF SyncOf
<1>i. Idle.kind # "sync"
  BY DEF Idle
<1>3. ASSUME NEW refresh, NEW todo, SyncStart(w, refresh, todo)
      PROVE  \A u \in Process : Kept(u)
  BY <1>3, <1>k, <1>s DEF SyncStart
<1>4. ASSUME NEW t \in Target, SyncSkip(w, t) PROVE \A u \in Process : Kept(u)
  <2>1. op' = [op EXCEPT ![w] = [op[w] EXCEPT !.todo = @ \ {t}]]
    BY <1>4 DEF SyncSkip
  <2>2. [op[w] EXCEPT !.todo = @ \ {t}].step = "next"
    BY <1>4, OpRead DEF SyncSkip, Syncing
  <2> QED BY <1>k, <2>1, <2>2
<1>5. ASSUME SyncClean(w) PROVE \A u \in Process : Kept(u)
  BY <1>5, <1>k, <1>s DEF SyncClean, SyncNext
<1>6. ASSUME SyncEnd(w) \/ UnregisterProject(w) PROVE \A u \in Process : Kept(u)
  BY <1>6, <1>k, <1>i DEF SyncEnd, UnregisterProject
<1>7. ASSUME NEW a \in Alias, NEW r \in Root, Register(w, a, r)
      PROVE  \A u \in Process : Kept(u)
  BY <1>7, <1>k DEF Register
<1>8. ASSUME NEW key \in Alias \cup Root, Unregister(w, key)
      PROVE  \A u \in Process : Kept(u)
  BY <1>8, <1>k DEF Unregister
<1>9. ASSUME RegistryTruncate(w) \/ RegistryWrite(w) PROVE \A u \in Process : Kept(u)
  <2>1. PICK step : op' = [op EXCEPT ![w] = [op[w] EXCEPT !.step = step]]
    BY <1>9 DEF RegistryTruncate, RegistryWrite
  <2>2. op[w] \in Registering \cup Unregistering
    BY <1>9, OpRead DEF RegistryTruncate, RegistryWrite
  <2>3. [op[w] EXCEPT !.step = step].kind # "sync"
    BY <2>2 DEF Registering, Unregistering
  <2> QED BY <1>k, <2>1, <2>3
<1>10. ASSUME RegisterProject(w) PROVE \A u \in Process : Kept(u)
  <2>1. \/ op' = [op EXCEPT ![w] = Idle]
        \/ op' = [op EXCEPT ![w] = SyncOf(FALSE, {<<op[w].target[1], op[w].target[2]>>})]
    BY <1>10 DEF RegisterProject
  <2> QED BY <1>k, <1>i, <1>s, <2>1
<1>11. \A u \in Process : Kept(u)
  BY <1>3, <1>4, <1>5, <1>6, <1>7, <1>8, <1>9, <1>10 DEF SyncAll, List, Project
<1> QED BY <1>1, <1>11, LedgersAlone, ShownStays DEF Stays

LEMMA CollectEffect ==
    ASSUME TypeOK, TypeOK', SyncHasTarget, NEW w \in Process, NEW t \in Target,
           SyncCollect(w, t)
    PROVE  Begins(w, t)
<1> DEFINE r == t[2]
           gone == db'[r] \in {"absent", "removed"}
           step == IF gone THEN "project" ELSE "open"
           snap == IF gone THEN {Missing} ELSE {}
<1>1. op[w] \in Syncing /\ r \in Root /\ op[w].step = "next"
  BY OpRead DEF SyncCollect, Target
<1>2. PICK refresh \in BOOLEAN :
          op' = [op EXCEPT ![w] = [op[w] EXCEPT !.step = step, !.target = t, !.todo = @ \ {t},
                                                !.refresh = refresh, !.snap = snap]]
  BY <1>1, CollectMoves
<1>3. /\ op'[w] = [op[w] EXCEPT !.step = step, !.target = t, !.todo = @ \ {t},
                                !.refresh = refresh, !.snap = snap]
      /\ OthersKept(w)
  <2> HIDE DEF step, snap
  <2> QED BY <1>2, KeptUpdate
<1>4. op'[w].kind = "sync" /\ op'[w].step = step /\ op'[w].target = t /\ op'[w].snap = snap
  <2> HIDE DEF step, snap
  <2> QED BY <1>1, <1>3 DEF Syncing
<1>5. \A s \in Root \ {r} : db'[s] = db[s] /\ written'[s] = written[s]
  <2>1. db' = Opened(r) \/ db' = db
    BY DEF SyncCollect
  <2>2. Rewritten(r) \/ written' = written
    BY DEF SyncCollect
  <2> QED BY <1>1, <2>1, <2>2 DEF Opened, Rewritten, TypeOK
<1>6. OnlyLedger(r)
  BY <1>1, <1>5, LedgerAlone
<1>7. There'[r] <=> ~gone
  <2>1. db'[r] \in FileState
    BY <1>1 DEF TypeOK
  <2> QED BY <1>1, <2>1 DEF There, Exists, FileState
<1>8. snap = IF There'[r] THEN {} ELSE {Missing}
  BY <1>7
<1>9. ~Fetching(w) /\ Fetching(w)'
  <2>1. step \in {"project", "open"}
    OBVIOUS
  <2> HIDE DEF step
  <2> QED BY <1>1, <1>4, <2>1 DEF Fetching
<1>10. Shown' = Shown
  BY ShownStays DEF SyncCollect, hub
<1> HIDE DEF snap, step
<1> QED BY <1>3, <1>4, <1>6, <1>8, <1>9, <1>10 DEF Begins

LEMMA OpenEffect ==
    ASSUME TypeOK, TypeOK', SyncHasTarget, NEW w \in Process, SyncOpen(w)
    PROVE  \E r \in Root : Changes(r)
<1>1. PICK r \in Root : r = op[w].target[2]
  BY DEF SyncOpen, SyncHasTarget, Target
<1>2. \A s \in Root \ {r} : db'[s] = db[s] /\ written'[s] = written[s]
  BY <1>1 DEF SyncOpen, Rewritten, TypeOK
<1>3. op[w] \in Syncing /\ Fetching(w)
  BY OpRead DEF SyncOpen, Fetching
<1>4. PICK step \in {"read", "project"} : op' = [op EXCEPT ![w] = [op[w] EXCEPT !.step = step]]
  BY DEF SyncOpen
<1>5. op'[w] = [op[w] EXCEPT !.step = step] /\ OthersKept(w)
  BY <1>4, KeptUpdate
<1>6. Kept(w)
  BY <1>3, <1>5 DEF Kept, Fetching, Syncing
<1>7. \A u \in Process : Kept(u)
  BY <1>5, <1>6 DEF OthersKept
<1>8. Shown' = Shown
  BY ShownStays DEF SyncOpen, hub
<1>9. Changes(r)
  BY <1>2, <1>7, <1>8, LedgerAlone DEF Changes
<1> QED BY <1>9

LEMMA ReadEffect ==
    ASSUME TypeOK, SyncHasTarget, NEW w \in Process, SyncRead(w)
    PROVE  Sees(w)
<1>1. op[w] \in Syncing /\ Fetching(w)
  BY OpRead DEF SyncRead, Fetching
<1>2. LedgersStay /\ Shown' = Shown
  BY LedgersAlone, ShownStays DEF SyncRead, ledgers, hub
<1>3. PICK step \in {"read", "project"} :
          op' = [op EXCEPT ![w] = [op[w] EXCEPT !.step = step,
                                       !.snap = @ \cup {written[op[w].target[2]]}]]
  BY DEF SyncRead
<1>4. op'[w] = [op[w] EXCEPT !.step = step, !.snap = @ \cup {written[op[w].target[2]]}]
          /\ OthersKept(w)
  BY <1>3, KeptUpdate
<1>5. op'[w].kind = "sync" /\ op'[w].step = step /\ op'[w].target = op[w].target
          /\ op'[w].snap = op[w].snap \cup {written[op[w].target[2]]}
  BY <1>1, <1>4 DEF Syncing
<1>6. Fetching(w)'
  BY <1>5 DEF Fetching
<1> QED BY <1>1, <1>2, <1>4, <1>5, <1>6 DEF Sees

LEMMA ProjectEffect ==
    ASSUME TypeOK, SyncHasTarget, NEW w \in Process, SyncProject(w)
    PROVE  Stays \/ Ends(w)
<1>1. op[w] \in Syncing /\ Fetching(w)
  BY OpRead DEF SyncProject, Fetching
<1>2. LedgersStay /\ Shown' = Shown
  BY LedgersAlone, ShownStays DEF SyncProject, ledgers
<1>3. CASE op' = SyncNext(w)
  <2>1. op'[w] = SyncOf(op[w].refresh, op[w].todo) /\ OthersKept(w)
    BY <1>3, KeptUpdate DEF SyncNext
  <2> QED BY <1>1, <1>2, <2>1 DEF Ends, Fetching, SyncOf
<1>4. CASE op' # SyncNext(w)
  <2>1. op' = [op EXCEPT ![w] = [op[w] EXCEPT !.step = "row", !.at = Tick]]
    BY <1>4 DEF SyncProject
  <2>2. op'[w] = [op[w] EXCEPT !.step = "row", !.at = Tick] /\ OthersKept(w)
    BY <2>1, KeptUpdate
  <2>3. Kept(w)
    BY <1>1, <2>2 DEF Kept, Fetching, Syncing
  <2> QED BY <1>2, <2>2, <2>3 DEF Stays, OthersKept
<1> QED BY <1>3, <1>4

LEMMA RowEffect ==
    ASSUME TypeOK, SyncHasTarget, NEW w \in Process, SyncRow(w)
    PROVE  Ends(w)
<1> DEFINE a == op[w].target[1]
           row == [root |-> op[w].target[2], at |-> op[w].at, snap |-> op[w].snap]
<1>1. op[w] \in Syncing /\ Fetching(w) /\ op[w].target \in Target
  BY OpRead DEF SyncRow, Fetching, SyncHasTarget
<1>2. LedgersStay
  BY LedgersAlone DEF SyncRow, ledgers
<1>3. CASE op' = SyncNext(w) /\ UNCHANGED hubRow
  <2>1. op'[w] = SyncOf(op[w].refresh, op[w].todo) /\ OthersKept(w)
    BY <1>3, KeptUpdate DEF SyncNext
  <2> QED BY <1>1, <1>2, <1>3, <2>1, ShownStays DEF Ends, Fetching, SyncOf
<1>4. CASE hubRow' = [hubRow EXCEPT ![a] = row] 
                /\ op' = [op EXCEPT ![w].step = "mark", ![w].snap = {}]
  <2>1. op' = [op EXCEPT ![w] = [op[w] EXCEPT !.step = "mark", !.snap = {}]]
    BY <1>4
  <2>2. op'[w] = [op[w] EXCEPT !.step = "mark", !.snap = {}] /\ OthersKept(w)
    BY <2>1, KeptUpdate
  <2>3. ~Fetching(w)'
    BY <1>1, <2>2 DEF Fetching, Syncing
  <2>4. a \in Alias /\ row \in Row
    BY <1>1 DEF Target, Syncing, Row
  <2>5. row # NoRow
    BY <2>4, RowAssumption
  <2>6. hubRow'[a] = row /\ \A b \in Alias \ {a} : hubRow'[b] = hubRow[b]
    <3> HIDE DEF row, a
    <3> QED BY <1>4, <2>4 DEF TypeOK
  <2>7. Shown'[a] = {<<op[w].target[2], op[w].snap>>}
            /\ \A b \in Alias \ {a} : Shown'[b] = Shown[b]
    <3>1. Shown'[a] = {<<row.root, row.snap>>} /\ \A b \in Alias \ {a} : Shown'[b] = Shown[b]
      <4> HIDE DEF row, a
      <4> QED BY <2>4, <2>5, <2>6 DEF Shown
    <3> QED BY <3>1
  <2>8. Shown' = [Shown EXCEPT ![a] = {<<op[w].target[2], op[w].snap>>}]
    <3> HIDE DEF a
    <3> QED BY <2>4, <2>7 DEF Shown
  <2> QED BY <1>1, <1>2, <2>2, <2>3, <2>8 DEF Ends
<1> QED BY <1>3, <1>4 DEF SyncRow

LEMMA MarkEffect ==
    ASSUME TypeOK, TypeOK', SyncHasTarget, NEW w \in Process, SyncMark(w)
    PROVE  \E r \in Root : Changes(r)
<1>1. PICK r \in Root : r = op[w].target[2]
  BY DEF SyncMark, SyncHasTarget, Target
<1>2. \A s \in Root \ {r} : db'[s] = db[s] /\ written'[s] = written[s]
  BY <1>1 DEF SyncMark, Opened, Rewritten, TypeOK
<1>3. op[w] \in Syncing /\ op[w].step = "mark" /\ ~Fetching(w)
  BY OpRead DEF SyncMark, Fetching
<1>4. op' = [op EXCEPT ![w] = [op[w] EXCEPT !.step = "clean", !.at = 0]]
  BY DEF SyncMark
<1>5. [op[w] EXCEPT !.step = "clean", !.at = 0].step = "clean"
  BY <1>3 DEF Syncing
<1>6. \A u \in Process : Kept(u)
  BY <1>3, <1>4, <1>5, KeptIdle
<1>7. Shown' = Shown
  BY ShownStays DEF SyncMark, hub
<1>8. Changes(r)
  BY <1>2, <1>6, <1>7, LedgerAlone DEF Changes
<1> QED BY <1>8

LEMMA UnregisterEffect ==
    ASSUME TypeOK, NEW w \in Process, UnregisterRow(w)
    PROVE  Stays \/ \E a \in Alias : Forgets(a)
<1>1. LedgersStay
  BY LedgersAlone DEF UnregisterRow, ledgers
<1>2. op[w] \in Unregistering /\ ~Fetching(w)
  BY OpRead DEF UnregisterRow, Fetching
<1>3. op' = [op EXCEPT ![w] = [op[w] EXCEPT !.step = "project"]]
  BY DEF UnregisterRow
<1>4. [op[w] EXCEPT !.step = "project"].kind # "sync"
  BY <1>2 DEF Unregistering
<1>5. \A u \in Process : Kept(u)
  BY <1>2, <1>3, <1>4, KeptIdle
<1>6. hubRow' = [a \in Alias |-> IF a = op[w].key THEN NoRow ELSE hubRow[a]]
  BY DEF UnregisterRow
<1>7. CASE op[w].key \in Alias
  <2>1. PICK a \in Alias : a = op[w].key
    BY <1>7
  <2>2. Shown' = [Shown EXCEPT ![a] = {}]
    BY <1>6, <2>1 DEF Shown
  <2> QED BY <1>1, <1>5, <2>2 DEF Forgets
<1>8. CASE op[w].key \notin Alias
  <2>1. Shown' = Shown
    BY <1>6, <1>8 DEF Shown
  <2> QED BY <1>1, <1>5, <2>1 DEF Stays
<1> QED BY <1>7, <1>8

LEMMA CrashEffect ==
    ASSUME TypeOK, NEW w \in Process, Crash(w)
    PROVE  Stays \/ Ends(w)
<1>1. LedgersStay /\ Shown' = Shown
  BY LedgersAlone, ShownStays DEF Crash, ledgers, hub
<1>2. op' = [op EXCEPT ![w] = Idle] /\ Idle.kind # "sync"
  BY DEF Crash, Idle
<1>3. CASE Fetching(w)
  <2>1. op'[w] = Idle /\ OthersKept(w)
    BY <1>2, KeptUpdate
  <2> QED BY <1>1, <1>2, <1>3, <2>1 DEF Ends, Fetching
<1>4. CASE ~Fetching(w)
  BY <1>1, <1>2, <1>4, KeptIdle DEF Stays
<1> QED BY <1>3, <1>4

LEMMA StepEffect ==
    ASSUME TypeOK, SyncHasTarget, Next
    PROVE  Effect
<1>t. TypeOK'
  BY TypeNext
<1>1. CASE UserStep
  BY <1>t, <1>1, UserEffect DEF Effect
<1>2. ASSUME NEW w \in Process, CommandStep(w) PROVE Effect
  <2>1. CASE \E t \in Target : SyncCollect(w, t)
    BY <1>t, <1>2, <2>1, CollectEffect DEF Effect
  <2>2. CASE SyncProject(w)
    BY <1>2, <2>2, ProjectEffect DEF Effect
  <2>3. CASE SyncRow(w)
    BY <1>2, <2>3, RowEffect DEF Effect
  <2>4. CASE SyncMark(w) \/ SyncOpen(w)
    BY <1>t, <1>2, <2>4, MarkEffect, OpenEffect DEF Effect
  <2>5. CASE UnregisterRow(w)
    BY <1>2, <2>5, UnregisterEffect DEF Effect
  <2>6. CASE Crash(w)
    BY <1>2, <2>6, CrashEffect DEF Effect
  <2>8. CASE SyncRead(w)
    BY <1>2, <2>8, ReadEffect DEF Effect
  <2>7. CASE \/ SyncAll(w) \/ List(w) \/ (\E t \in Target : Project(w, t) \/ SyncSkip(w, t))
             \/ SyncClean(w) \/ SyncEnd(w)
             \/ (\E a \in Alias, r \in Root : Register(w, a, r))
             \/ (\E key \in Alias \cup Root : Unregister(w, key))
             \/ RegistryTruncate(w) \/ RegistryWrite(w) \/ RegisterProject(w)
             \/ UnregisterProject(w)
    BY <1>2, <2>7, QuietEffect DEF Effect
  <2> QED BY <1>2, <2>1, <2>2, <2>3, <2>4, <2>5, <2>6, <2>7, <2>8 DEF CommandStep, SyncStep
<1>3. ASSUME NEW w \in Watcher, SyncStep(w) PROVE Effect
  BY <1>2, <1>3 DEF CommandStep, Process
<1> QED BY <1>1, <1>2, <1>3 DEF Next, Process

-----------------------------------------------------------------------------
(* Each effect is a step of Cache.                                         *)

LEMMA FetchIs ==
    ASSUME TypeOK, SyncHasTarget, NEW u \in Process, Fetching(u)
    PROVE  /\ FetchOf[u] = {[key |-> op[u].target[1], origin |-> op[u].target[2],
                             seen |-> op[u].snap]}
           /\ op[u].target[1] \in Alias /\ op[u].target[2] \in Root
BY DEF FetchOf, Fetching, SyncHasTarget, Target

LEMMA FetchKept ==
    ASSUME NEW u \in Process, Kept(u)
    PROVE  FetchOf'[u] = FetchOf[u]
BY DEF Kept, FetchOf, Fetching

LEMMA FetchAlone ==
    ASSUME NEW w \in Process, OthersKept(w)
    PROVE  FetchOf' = [FetchOf EXCEPT ![w] = FetchOf'[w]]
<1>1. \A u \in Process \ {w} : FetchOf'[u] = FetchOf[u]
  BY FetchKept DEF OthersKept
<1> QED BY <1>1 DEF FetchOf

LEMMA FetchSame ==
    ASSUME \A u \in Process : Kept(u)
    PROVE  FetchOf' = FetchOf
<1>1. \A u \in Process : FetchOf'[u] = FetchOf[u]
  BY FetchKept
<1> QED BY <1>1 DEF FetchOf

LEMMA BeginsMaps ==
    ASSUME TypeOK', SyncHasTarget', NEW w \in Process, NEW t \in Target, Begins(w, t)
    PROVE  C!Begin(w)
<1>1. PICK k \in Alias, r \in Root : k = t[1] /\ r = t[2]
  BY DEF Target
<1>2. FetchOf[w] = {}
  BY DEF Begins, FetchOf
<1>3. PICK is \in BOOLEAN, v \in Instant :
          There' = [There EXCEPT ![r] = is] /\ written' = [written EXCEPT ![r] = v]
  BY <1>1 DEF Begins, OnlyLedger
<1>4. There'[r] = is
  BY <1>3 DEF There
<1>5. FetchOf'[w] = {[key |-> k, origin |-> r, seen |-> IF is THEN {} ELSE {Missing}]}
  <2>1. FetchOf'[w] = {[key |-> op'[w].target[1], origin |-> op'[w].target[2],
                        seen |-> op'[w].snap]}
    BY DEF Begins, FetchOf, Fetching
  <2> QED BY <1>1, <1>4, <2>1 DEF Begins
<1>6. FetchOf' = [FetchOf EXCEPT ![w] =
          {[key |-> k, origin |-> r, seen |-> IF is THEN {} ELSE {Missing}]}]
  BY <1>5, FetchAlone DEF Begins
<1>7. C!Becomes(r, is)
  BY <1>3 DEF C!Becomes
<1>8. Shown' = Shown
  BY DEF Begins
<1> QED BY <1>2, <1>6, <1>7, <1>8 DEF C!Begin

LEMMA SeesMaps ==
    ASSUME TypeOK, SyncHasTarget, NEW w \in Process, Sees(w)
    PROVE  C!See(w)
<1> DEFINE f == [key |-> op[w].target[1], origin |-> op[w].target[2], seen |-> op[w].snap]
<1>1. FetchOf[w] = {f}
  BY FetchIs DEF Sees
<1>2. FetchOf'[w] = {[key |-> op[w].target[1], origin |-> op[w].target[2],
                      seen |-> op[w].snap \cup {written[op[w].target[2]]}]}
  <2>1. FetchOf'[w] = {[key |-> op'[w].target[1], origin |-> op'[w].target[2],
                        seen |-> op'[w].snap]}
    BY DEF Sees, FetchOf, Fetching
  <2> QED BY <2>1 DEF Sees
<1>3. FetchOf'[w] = {[f EXCEPT !.seen = @ \cup {written[f.origin]}]}
  BY <1>2
<1>4. FetchOf' = [FetchOf EXCEPT ![w] = {[f EXCEPT !.seen = @ \cup {written[f.origin]}]}]
  <2> HIDE DEF f
  <2> QED BY <1>3, FetchAlone DEF Sees
<1>5. UNCHANGED <<written, There, Shown>>
  BY DEF Sees, LedgersStay
<1> HIDE DEF f
<1> QED BY <1>1, <1>4, <1>5 DEF C!See

LEMMA EndsMaps ==
    ASSUME TypeOK, SyncHasTarget, NEW w \in Process, Ends(w)
    PROVE  C!Store(w) \/ C!GiveUp(w)
<1> DEFINE f == [key |-> op[w].target[1], origin |-> op[w].target[2], seen |-> op[w].snap]
<1>1. FetchOf[w] = {f}
  BY FetchIs DEF Ends
<1>2. FetchOf'[w] = {}
  BY DEF Ends, FetchOf, Fetching
<1>3. FetchOf' = [FetchOf EXCEPT ![w] = {}]
  BY <1>2, FetchAlone DEF Ends
<1>4. UNCHANGED <<written, There>>
  BY DEF Ends, LedgersStay
<1>5. CASE Shown' = Shown
  BY <1>1, <1>3, <1>4, <1>5 DEF C!GiveUp
<1>6. CASE Shown' = [Shown EXCEPT ![op[w].target[1]] = {<<op[w].target[2], op[w].snap>>}]
  <2>1. Shown' = [Shown EXCEPT ![f.key] = {<<f.origin, f.seen>>}]
    BY <1>6
  <2> HIDE DEF f
  <2> QED BY <1>1, <1>3, <1>4, <2>1 DEF C!Store
<1> QED BY <1>5, <1>6 DEF Ends

LEMMA CacheStep ==
    TypeOK /\ SyncHasTarget /\ [Next]_vars => [C!Next]_<<written, There, FetchOf, Shown>>
<1> SUFFICES ASSUME TypeOK, SyncHasTarget, [Next]_vars
             PROVE  [C!Next]_<<written, There, FetchOf, Shown>>
  OBVIOUS
<1>1. CASE UNCHANGED vars
  BY <1>1 DEF vars, There, FetchOf, Shown, Exists, Fetching
<1>2. CASE Next
  <2>1. Effect /\ TypeOK' /\ SyncHasTarget'
    BY <1>2, StepEffect, TypeNext
  <2>2. CASE Stays
    BY <2>2, FetchSame DEF Stays, LedgersStay
  <2>3. ASSUME NEW r \in Root, Changes(r) PROVE C!Next
    <3>1. C!Change(r)
      BY <2>3, FetchSame DEF Changes, OnlyLedger, C!Change, C!Becomes
    <3> QED BY <3>1 DEF C!Next
  <2>4. ASSUME NEW w \in Process, NEW t \in Target, Begins(w, t) PROVE C!Next
    BY <2>1, <2>4, BeginsMaps DEF C!Next
  <2>5. ASSUME NEW w \in Process, Sees(w) \/ Ends(w) PROVE C!Next
    BY <2>5, SeesMaps, EndsMaps DEF C!Next
  <2>6. ASSUME NEW a \in Alias, Forgets(a) PROVE C!Next
    <3>1. C!Forget(a)
      BY <2>6, FetchSame DEF Forgets, LedgersStay, C!Forget
    <3> QED BY <3>1 DEF C!Next
  <2> QED BY <2>1, <2>2, <2>3, <2>4, <2>5, <2>6 DEF Effect
<1> QED BY <1>1, <1>2

LEMMA CacheInitOK == Init => C!Init
<1> SUFFICES ASSUME Init PROVE C!Init
  OBVIOUS
<1>1. written \in [Root -> Instant] /\ There \in [Root -> BOOLEAN]
  BY HubAssumption DEF Init, There, Exists, Instant
<1>2. \A u \in Process : ~Fetching(u)
  BY DEF Init, Fetching, Idle
<1>3. FetchOf = [u \in Process |-> {}]
  BY <1>2 DEF FetchOf
<1>4. Shown = [a \in Alias |-> {}]
  BY DEF Shown, Init
<1> QED BY <1>1, <1>3, <1>4 DEF C!Init

(***************************************************************************)
(* Whatever users do to ledgers and however syncs, registrations and       *)
(* unregistrations interleave or die, what the hub shows under an alias is *)
(* what one sync saw of the ledger of one registered project, in queries   *)
(* made after it began (CollectSnapshot, snapshot.go:69, and SyncOne,      *)
(* service.go:276-304).                                                    *)
(***************************************************************************)
THEOREM HubRefinement == Spec => ImplementsCache
<1>1. Init => C!Init
  BY CacheInitOK
<1>2. TypeOK /\ SyncHasTarget /\ [Next]_vars => [C!Next]_C!vars
  BY CacheStep DEF C!vars
<1> QED BY <1>1, <1>2, TypeCorrect, PTL DEF Spec, ImplementsCache, C!Spec
=============================================================================
