--------------------------- MODULE ProvisionProofs ---------------------------
(***************************************************************************)
(* Theorems about Provision for any number of processes, in the two        *)
(* environments it is safe in: one process at a time, or overlapping       *)
(* processes whose virsh define never fails.                               *)
(***************************************************************************)
EXTENDS Provision, TLAPS

\* Both kinds of environment, not both at once.
Gentle == Modes \subseteq {"alone", "steady"}

\* In "alone" at most one process is at work.
OneAtATime == mode = "alone" => \A p, q \in Proc : pc[p] # "idle" /\ pc[q] # "idle" => p = q

\* The disk a process has published is its own until virsh defined the domain: this is
\* what makes its rollback harmless.
Publishing(p) == pc[p] \in {"unlink temp", "define", "rollback"}
OwnDisk == mode = "alone" => \A p \in Proc : Publishing(p) => disk = p /\ ~defined

\* Nobody removes a disk in "steady", so a disk once seen stays.
DiskSeen == \A p \in Proc :
    /\ pc[p] \in {"unlink temp", "define", "define only"} => disk # None
    /\ mode = "steady" => pc[p] # "rollback"

\* Only a defined domain runs.
UsedDefined == used => defined

Inv == TypeOK /\ OneAtATime /\ OwnDisk /\ DiskSeen /\ UsedDefined
           /\ NoDisklessDomain /\ SuccessMeansReady

\* A process that is not None can own a disk.
LEMMA ProcIsSome == \A p \in Proc : p # None
BY ProvisionAssumption

\* The mode of a behaviour never changes, and is one of the gentle ones.
LEMMA GentleModes ==
    ASSUME Gentle, TypeOK
    PROVE  mode \in {"alone", "steady"}
BY DEF Gentle, TypeOK

\* Nothing exists at first.
LEMMA InitInv == Init => Inv
BY ProcIsSome DEF Init, Inv, TypeOK, PC, OneAtATime, OwnDisk, Publishing, DiskSeen, UsedDefined,
                  NoDisklessDomain, SuccessMeansReady

\* Where a process can go from a step that is not its last.
Moves(p) == (\E l \in PC : Goto(p, l)) \/ (\E r \in BOOLEAN : Return(p, r))
Control == /\ pc \in [Proc -> PC]
           /\ ok \in [Proc -> BOOLEAN]
           /\ \A p \in Proc : ok[p] => pc[p] = "return"

\* Going on, or returning, keeps results where they belong.
LEMMA MovesControl ==
    ASSUME Control, NEW p \in Proc, pc[p] # "return", Moves(p)
    PROVE  Control'
<1>1. CASE \E l \in PC : Goto(p, l)
  BY <1>1 DEF Control, Goto
<1>2. CASE \E r \in BOOLEAN : Return(p, r)
  BY <1>2 DEF Control, Return, PC
<1> QED BY <1>1, <1>2 DEF Moves

\* A process that ends leaves no result.
LEMMA EndControl == ASSUME Control, NEW p \in Proc, Finish(p) \/ Kill(p) PROVE Control'
BY DEF Control, Finish, Kill, PC

\* The program counter of a step, and that it is not the last.
LEMMA StepMoves ==
    ASSUME NEW p \in Proc, ProcStep(p), ~Finish(p)
    PROVE  Moves(p) /\ pc[p] # "return"
<1> USE DEF Moves, PC
<1>1. CASE EnsureExists(p)
  BY <1>1 DEF EnsureExists
<1>2. CASE CheckDisk(p)
  BY <1>2 DEF CheckDisk
<1>3. CASE CheckBase(p)
  BY <1>3 DEF CheckBase
<1>4. CASE CheckTemp(p)
  BY <1>4 DEF CheckTemp
<1>5. CASE CreateOverlay(p)
  BY <1>5 DEF CreateOverlay
<1>6. CASE Link(p)
  BY <1>6 DEF Link
<1>7. CASE DropTemp(p)
  BY <1>7 DEF DropTemp
<1>8. CASE UnlinkTemp(p)
  BY <1>8 DEF UnlinkTemp
<1>9. CASE Define(p)
  BY <1>9 DEF Define
<1>10. CASE Rollback(p)
  BY <1>10 DEF Rollback
<1>11. CASE DefineOnly(p)
  BY <1>11 DEF DefineOnly
<1> QED BY <1>1, <1>2, <1>3, <1>4, <1>5, <1>6, <1>7, <1>8, <1>9, <1>10, <1>11 DEF ProcStep

\* The temporary file of a process is there from its qemu-img to its unlink.
Linking(p) == pc[p] \in {"link", "drop temp", "unlink temp"}
Held == \A p \in Proc : Linking(p) => temp[p]

\* No process touches the file of another, and its own step keeps its own.
LEMMA StepHeld ==
    ASSUME Held, pc \in [Proc -> PC], temp \in [Proc -> BOOLEAN],
           NEW p \in Proc, ProcStep(p) \/ Kill(p)
    PROVE  Held'
<1> USE DEF Held, Linking, Goto, Return, files
<1>1. CASE EnsureExists(p) \/ CheckDisk(p) \/ CheckBase(p) \/ CheckTemp(p)
  BY <1>1 DEF EnsureExists, CheckDisk, CheckBase, CheckTemp
<1>2. CASE CreateOverlay(p)
  BY <1>2 DEF CreateOverlay
<1>3. CASE DropTemp(p) \/ UnlinkTemp(p)
  BY <1>3 DEF DropTemp, UnlinkTemp
<1>4. CASE Link(p) \/ Rollback(p)
  BY <1>4 DEF Link, Rollback
<1>5. CASE Define(p) \/ DefineOnly(p)
  BY <1>5 DEF Define, DefineOnly
<1>6. CASE Finish(p) \/ Kill(p)
  BY <1>6 DEF Finish, Kill
<1> QED BY <1>1, <1>2, <1>3, <1>4, <1>5, <1>6 DEF ProcStep

\* A step keeps the types, and a result belongs to a process that returns.
LEMMA NextType == TypeOK /\ [Next]_vars => TypeOK'
<1> SUFFICES ASSUME TypeOK, [Next]_vars PROVE TypeOK'
  OBVIOUS
<1> DEFINE Data == /\ mode \in Modes /\ disk \in Proc \cup {None}
                   /\ temp \in [Proc -> BOOLEAN] /\ defined \in BOOLEAN /\ used \in BOOLEAN
<1>c. Control /\ Data /\ Held /\ (Control' /\ Data' /\ Held' => TypeOK')
  BY DEF TypeOK, Control, Held, Linking
<1>1. ASSUME NEW p \in Proc, NEW c \in Calls, Begin(p, c) PROVE TypeOK'
  <2>1. Moves(p) /\ pc[p] # "return"
    BY <1>1 DEF Begin, Moves, Calls, PC
  <2>2. Data'
    BY <1>1, <1>c DEF Begin, files
  <2>3. Held'
    BY <1>1, <1>c DEF Begin, files, Goto, Calls, Held, Linking, Control
  <2> QED BY <2>1, <2>2, <2>3, <1>c, MovesControl
<1>2. ASSUME NEW p \in Proc, ProcStep(p) \/ Kill(p) PROVE TypeOK'
  <2>1. Control'
    BY <1>2, <1>c, StepMoves, MovesControl, EndControl
  <2>2. Data'
    <3> HIDE DEF Goto, Return
    <3>1. CASE EnsureExists(p) \/ CheckDisk(p) \/ CheckBase(p) \/ CheckTemp(p)
      BY <3>1, <1>c DEF EnsureExists, CheckDisk, CheckBase, CheckTemp, files
    <3>2. CASE CreateOverlay(p) \/ DropTemp(p) \/ UnlinkTemp(p)
      BY <3>2, <1>c DEF CreateOverlay, DropTemp, UnlinkTemp
    <3>3. CASE Link(p) \/ Rollback(p)
      BY <3>3, <1>c DEF Link, Rollback
    <3>4. CASE Define(p) \/ DefineOnly(p)
      BY <3>4, <1>c DEF Define, DefineOnly, DefineFails, files
    <3>5. CASE Finish(p) \/ Kill(p)
      BY <3>5, <1>c DEF Finish, Kill, files
    <3> QED BY <1>2, <3>1, <3>2, <3>3, <3>4, <3>5 DEF ProcStep
  <2>3. Held'
    BY <1>2, <1>c, StepHeld DEF Control
  <2> QED BY <2>1, <2>2, <2>3, <1>c
<1>3. CASE GuestRuns
  BY <1>3 DEF GuestRuns, TypeOK, files
<1>4. CASE UNCHANGED vars
  BY <1>4 DEF vars, TypeOK, files
<1> QED BY <1>1, <1>2, <1>3, <1>4 DEF Next

\* What a process does between its first look at the disk and its result keeps the
\* invariant: only Link creates a disk, and only where there is none; only Define and
\* DefineOnly define the domain, and only on a disk.
LEMMA ProcStepInv ==
    ASSUME Gentle, Inv, TypeOK', NEW p \in Proc, ProcStep(p)
    PROVE  Inv'
<1> DEFINE Rest == /\ OneAtATime' /\ OwnDisk' /\ DiskSeen'
                   /\ UsedDefined' /\ NoDisklessDomain' /\ SuccessMeansReady'
<1>a. mode \in {"alone", "steady"}
  BY GentleModes DEF Inv
<1>t. /\ pc \in [Proc -> PC] /\ ok \in [Proc -> BOOLEAN] /\ OneAtATime /\ OwnDisk /\ DiskSeen
      /\ UsedDefined /\ NoDisklessDomain /\ SuccessMeansReady
      /\ defined \in BOOLEAN /\ disk \in Proc \cup {None} /\ p # None
      /\ \A q \in Proc : ok[q] => pc[q] = "return"
  BY ProcIsSome DEF Inv, TypeOK
<1> USE DEF OneAtATime, OwnDisk, Publishing, DiskSeen, UsedDefined,
            NoDisklessDomain, SuccessMeansReady, Goto, Return, files
<1>1. ASSUME EnsureExists(p) PROVE Rest
  BY <1>1, <1>t DEF EnsureExists
<1>2. ASSUME CheckDisk(p) PROVE Rest
  <2>1. CASE Return(p, FALSE)
    BY <1>2, <2>1, <1>t DEF CheckDisk
  <2>2. CASE ~(Return(p, FALSE))
    BY <1>2, <2>2, <1>t DEF CheckDisk
  <2> QED BY <2>1, <2>2
<1>3. ASSUME CheckBase(p) \/ CheckTemp(p) PROVE Rest
  <2>0. pc[p] \in {"info", "temp"} /\ UNCHANGED <<mode, disk, defined, used>>
    BY <1>3 DEF CheckBase, CheckTemp
  <2>1. CASE Return(p, FALSE)
    BY <2>0, <2>1, <1>t
  <2>2. CASE ~Return(p, FALSE)
    <3>1. PICK l \in {"temp", "qemu-img"} : Goto(p, l)
      BY <1>3, <2>2 DEF CheckBase, CheckTemp
    <3> QED BY <2>0, <3>1, <1>t
  <2> QED BY <2>1, <2>2
<1>4. ASSUME CreateOverlay(p) PROVE Rest
  <2>1. CASE Return(p, FALSE)
    BY <1>4, <2>1, <1>t DEF CreateOverlay
  <2>2. CASE ~(Return(p, FALSE))
    BY <1>4, <2>2, <1>t DEF CreateOverlay
  <2> QED BY <2>1, <2>2
<1>5. ASSUME Link(p) PROVE Rest
  <2>1. CASE disk # None
    <3>1. pc[p] = "link" /\ Goto(p, "drop temp") /\ UNCHANGED <<mode, disk, defined, used>>
      BY <1>5, <2>1 DEF Link
    <3> QED BY <3>1, <1>t
  <2>2. CASE Goto(p, "drop temp") /\ UNCHANGED <<disk, used>>
    BY <1>5, <2>2, <1>t DEF Link
  <2>3. CASE disk = None /\ ~(Goto(p, "drop temp") /\ UNCHANGED <<disk, used>>)
    <3>1. /\ disk = None /\ disk' = p /\ used' = FALSE
          /\ ~defined /\ defined' = defined /\ mode' = mode
      BY <1>5, <2>3, <1>t DEF Link
    <3>2. pc[p] = "link" /\ pc' = [pc EXCEPT ![p] = "unlink temp"] /\ ok' = ok
      BY <1>5, <2>3 DEF Link
    <3>0. \A q \in Proc : pc'[q] = IF q = p THEN "unlink temp" ELSE pc[q]
      BY <3>2, <1>t
    <3>3. OneAtATime'
      <4> SUFFICES ASSUME mode = "alone", NEW q \in Proc, NEW r \in Proc,
                          pc'[q] # "idle", pc'[r] # "idle"
                   PROVE  q = r
        BY <3>1
      <4>1. pc[q] # "idle" /\ pc[r] # "idle"
        BY <3>0, <3>2
      <4> QED BY <4>1, <1>t
    <3>5. ASSUME mode = "alone", NEW q \in Proc, Publishing(q)' PROVE q = p
      BY <3>5, <3>1, <3>2, <1>t
    <3>6. OwnDisk'
      BY <3>1, <3>5
    <3>4. DiskSeen' /\ UsedDefined' /\ NoDisklessDomain' /\ SuccessMeansReady'
      BY <3>1, <3>2, <1>a, <1>t
    <3> QED BY <3>3, <3>4, <3>6
  <2> QED BY <2>1, <2>2, <2>3
<1>6. ASSUME DropTemp(p) PROVE Rest
  BY <1>6, <1>t DEF DropTemp
<1>7. ASSUME UnlinkTemp(p) PROVE Rest
  <2>1. CASE Return(p, FALSE)
    BY <1>7, <2>1, <1>t DEF UnlinkTemp
  <2>2. CASE ~(Return(p, FALSE))
    BY <1>7, <2>2, <1>t DEF UnlinkTemp
  <2> QED BY <2>1, <2>2
<1>8. ASSUME Define(p) PROVE Rest
  <2>1. CASE Return(p, TRUE)
    BY <1>8, <2>1, <1>a, <1>t DEF Define, DefineFails
  <2>2. CASE ~Return(p, TRUE)
    <3>1. DefineFails /\ Goto(p, "rollback") /\ pc[p] = "define" /\ UNCHANGED <<mode, files, used>>
      BY <1>8, <2>2 DEF Define
    <3> QED BY <3>1, <1>a, <1>t DEF DefineFails
  <2> QED BY <2>1, <2>2
<1>9. ASSUME Rollback(p) PROVE Rest
  BY <1>9, <1>a, <1>t DEF Rollback
<1>10. ASSUME DefineOnly(p) PROVE Rest
  BY <1>10, <1>a, <1>t DEF DefineOnly, DefineFails
<1>11. ASSUME Finish(p) PROVE Rest
  BY <1>11, <1>t DEF Finish
<1>12. Rest
  <2> HIDE DEF Rest
  <2> QED BY <1>1, <1>2, <1>3, <1>4, <1>5, <1>6, <1>7, <1>8, <1>9, <1>10, <1>11 DEF ProcStep
<1> QED BY <1>12 DEF Inv

\* So does every other step.
LEMMA NextInv == Gentle /\ Inv /\ [Next]_vars => Inv'
<1> SUFFICES ASSUME Gentle, Inv, [Next]_vars PROVE Inv'
  OBVIOUS
<1>t. TypeOK /\ TypeOK'
  BY NextType DEF Inv
<1>1. ASSUME NEW p \in Proc, NEW c \in Calls, Begin(p, c) PROVE Inv'
  <2> USE DEF OneAtATime, OwnDisk, Publishing, DiskSeen, UsedDefined,
              NoDisklessDomain, SuccessMeansReady
  <2> QED BY <1>1, <1>t DEF Begin, Goto, Calls, Inv, TypeOK, files
<1>2. ASSUME NEW p \in Proc, ProcStep(p) PROVE Inv'
  BY <1>2, <1>t, ProcStepInv
<1>3. ASSUME NEW p \in Proc, Kill(p) PROVE Inv'
  BY <1>3, <1>t DEF Kill, Inv, TypeOK, OneAtATime, OwnDisk, Publishing, DiskSeen, UsedDefined,
                    NoDisklessDomain, SuccessMeansReady, files
<1>4. CASE GuestRuns
  BY <1>4, <1>t DEF GuestRuns, Inv, OneAtATime, OwnDisk, Publishing, DiskSeen, UsedDefined,
                    NoDisklessDomain, SuccessMeansReady, files
<1>5. CASE UNCHANGED vars
  BY <1>5, <1>t DEF vars, Inv, OneAtATime, OwnDisk, Publishing, DiskSeen, UsedDefined,
                    NoDisklessDomain, SuccessMeansReady, files
<1> QED BY <1>1, <1>2, <1>3, <1>4, <1>5 DEF Next

\* The inductive invariant of Provision.
THEOREM ProvisionInvariant == Gentle => (Spec => []Inv)
<1> SUFFICES ASSUME Gentle PROVE Spec => []Inv
  OBVIOUS
<1>1. Inv /\ [Next]_vars => Inv'
  BY NextInv
<1> QED BY <1>1, InitInv, PTL DEF Spec

\* Type correctness, in every environment.
THEOREM TypeCorrect == Spec => []TypeOK
<1>1. Init => TypeOK
  BY InitInv DEF Inv
<1> QED BY <1>1, NextType, PTL DEF Spec

\* libvirt never holds a domain without its disk.
THEOREM DomainsHaveDisks == Gentle => (Spec => []NoDisklessDomain)
<1> SUFFICES ASSUME Gentle PROVE Spec => []NoDisklessDomain
  OBVIOUS
<1>1. Inv => NoDisklessDomain
  BY DEF Inv
<1> QED BY <1>1, ProvisionInvariant, PTL

\* create and ensure are believed only when they leave a defined domain on a disk.
THEOREM SuccessIsReady == Gentle => (Spec => []SuccessMeansReady)
<1> SUFFICES ASSUME Gentle PROVE Spec => []SuccessMeansReady
  OBVIOUS
<1>1. Inv => SuccessMeansReady
  BY DEF Inv
<1> QED BY <1>1, ProvisionInvariant, PTL

\* A step that touches the disk links a new one where there was none, or rolls back one
\* that no domain has ever used.
LEMMA StepKeepsDisk ==
    ASSUME Gentle, Inv, [Next]_vars, disk # None, disk' # disk
    PROVE  disk' = None /\ ~defined /\ ~used
<1>1. ASSUME NEW p \in Proc, ProcStep(p) PROVE Rollback(p)
  BY <1>1 DEF ProcStep, EnsureExists, CheckDisk, CheckBase, CheckTemp, CreateOverlay, Link,
              DropTemp, UnlinkTemp, Define, DefineOnly, Finish, files
<1>2. ASSUME NEW p \in Proc, Rollback(p) PROVE disk' = None /\ ~defined /\ ~used
  BY <1>2, GentleModes DEF Rollback, Inv, OwnDisk, Publishing, DiskSeen, UsedDefined
<1>3. ASSUME NEW p \in Proc, NEW c \in Calls, Begin(p, c) PROVE FALSE
  BY <1>3 DEF Begin, files
<1>4. ASSUME NEW p \in Proc, Kill(p) PROVE FALSE
  BY <1>4 DEF Kill, files
<1>5. CASE GuestRuns \/ UNCHANGED vars
  BY <1>5 DEF GuestRuns, vars, files
<1> QED BY <1>1, <1>2, <1>3, <1>4, <1>5 DEF Next

\* No VM loses its persistent disk to create, to ensure or to their rollback.
THEOREM DisksAreKept == Gentle => (Spec => DiskKept)
<1> SUFFICES ASSUME Gentle PROVE Spec => DiskKept
  OBVIOUS
<1>1. Inv /\ [Next]_vars => 
          [disk # None => disk' = disk \/ (disk' = None /\ ~defined /\ ~used)]_vars
  <2>1. ASSUME Inv, [Next]_vars, disk # None, disk' # disk
        PROVE  disk' = None /\ ~defined /\ ~used
    BY <2>1, StepKeepsDisk
  <2> QED BY <2>1
<1> QED BY <1>1, ProvisionInvariant, PTL DEF Spec, DiskKept

-----------------------------------------------------------------------------
\* Of the actions that are not steps of a process, none touches a file or the domain.
LEMMA OthersTouchNothing ==
    ASSUME [Next]_vars
    PROVE  (\E p \in Proc : ProcStep(p)) \/ UNCHANGED <<mode, files, defined>>
<1>1. ASSUME NEW p \in Proc, NEW c \in Calls, Begin(p, c) PROVE UNCHANGED <<mode, files, defined>>
  BY <1>1 DEF Begin
<1>2. ASSUME NEW p \in Proc, Kill(p) PROVE UNCHANGED <<mode, files, defined>>
  BY <1>2 DEF Kill
<1>3. CASE GuestRuns \/ UNCHANGED vars
  BY <1>3 DEF GuestRuns, vars
<1> QED BY <1>1, <1>2, <1>3 DEF Next

\* What a process may do to the disk and to the domain, seen from outside.
LEMMA StepEffect ==
    ASSUME NEW p \in Proc, ProcStep(p)
    PROVE  \/ UNCHANGED <<disk, defined>>
           \/ pc[p] = "link" /\ disk = None /\ disk' = p /\ UNCHANGED defined
           \/ pc[p] = "rollback" /\ disk' = None /\ UNCHANGED defined
           \/ pc[p] \in {"define", "define only"} /\ defined' = TRUE /\ UNCHANGED disk
<1>1. CASE \/ EnsureExists(p) \/ CheckDisk(p) \/ CheckBase(p) \/ CheckTemp(p)
           \/ CreateOverlay(p) \/ DropTemp(p) \/ UnlinkTemp(p) \/ Finish(p)
  BY <1>1 DEF EnsureExists, CheckDisk, CheckBase, CheckTemp, CreateOverlay, DropTemp,
              UnlinkTemp, Finish, files
<1>2. CASE Link(p)
  BY <1>2 DEF Link
<1>3. CASE Define(p)
  BY <1>3 DEF Define, DefineFails, files
<1>4. CASE DefineOnly(p)
  BY <1>4 DEF DefineOnly, DefineFails, files
<1>5. CASE Rollback(p)
  BY <1>5 DEF Rollback
<1> QED BY <1>1, <1>2, <1>3, <1>4, <1>5 DEF ProcStep

\* The same through the mapping to Disks: linking and defining provide the VM's disk, for
\* DiskSeen says that a domain is only defined on one; a rollback takes back a disk that
\* OwnDisk says no domain has.
LEMMA StepImplements ==
    ASSUME Gentle, Inv, NEW p \in Proc, ProcStep(p)
    PROVE  D!Next \/ UNCHANGED D!vars
<1> USE DEF D!Next, D!Provide, D!TakeBack, D!vars
<1>t. /\ disk \in Proc \cup {None} /\ defined \in BOOLEAN /\ p # None
      /\ mode \in {"alone", "steady"} /\ OwnDisk /\ DiskSeen
  BY GentleModes, ProcIsSome DEF Inv, TypeOK
<1>1. CASE UNCHANGED <<disk, defined>>
  BY <1>1
<1>2. CASE pc[p] = "link" /\ disk = None /\ disk' = p /\ UNCHANGED defined
  BY <1>2, <1>t
<1>3. CASE pc[p] = "rollback" /\ disk' = None /\ UNCHANGED defined
  <2>1. ~defined
    BY <1>3, <1>t DEF OwnDisk, Publishing, DiskSeen
  <2> QED BY <1>3, <2>1
<1>4. CASE pc[p] \in {"define", "define only"} /\ defined' = TRUE /\ UNCHANGED disk
  <2>1. disk # None
    BY <1>4, <1>t DEF DiskSeen
  <2> QED BY <1>4, <2>1
<1> QED BY <1>1, <1>2, <1>3, <1>4, StepEffect

\* create and ensure, with their rollbacks and kills, keep what Disks promises of a VM.
THEOREM ProvisionImplementsDisks == Gentle => (Spec => ImplementsDisks)
<1> SUFFICES ASSUME Gentle PROVE Spec => ImplementsDisks
  OBVIOUS
<1>1. Init => D!Init
  BY DEF Init, D!Init
<1>2. Inv /\ [Next]_vars => [D!Next]_(D!vars)
  <2> SUFFICES ASSUME Inv, [Next]_vars PROVE D!Next \/ UNCHANGED D!vars
    OBVIOUS
  <2>1. CASE UNCHANGED <<mode, files, defined>>
    BY <2>1 DEF files, D!vars
  <2>2. CASE \E p \in Proc : ProcStep(p)
    BY <2>2, StepImplements
  <2> QED BY <2>1, <2>2, OthersTouchNothing
<1> QED BY <1>1, <1>2, ProvisionInvariant, PTL DEF Spec, ImplementsDisks, D!Spec

\* In every environment, the unsafe one included: no overlay is ever overwritten, and one
\* goes only by the rollback of a create whose virsh define failed.
THEOREM DisksGoByRollback ==
    Spec => [][disk # None /\ disk' # disk =>
                   disk' = None /\ \E p \in Proc : pc[p] = "rollback"]_vars
<1>1. ASSUME [Next]_vars, disk # None, disk' # disk
      PROVE  disk' = None /\ \E p \in Proc : pc[p] = "rollback"
  BY <1>1, OthersTouchNothing, StepEffect DEF files
<1> QED BY <1>1, PTL DEF Spec
=============================================================================
