----------------------------- MODULE Tools_proofs -----------------------------
(***************************************************************************)
(* Theorems about the tools around the platform, each about its part of    *)
(* ToolsSpec: what a finished report leaves in its container, what the     *)
(* password of the deployment, the scorecard and the scaled platform are   *)
(* in the end, what the console decides, counts and shows, and what the    *)
(* load generator accounts for.                                            *)
(***************************************************************************)
EXTENDS MCTools, FiniteSetTheorems, WellFoundedInduction, TLAPS

Contents == Tables \cup {{}}
Stages == {"idle", "load", "loaded", "done", "failed"}
Runs ==
  [stage : Stages, attempt : Nat, dry : BOOLEAN, source : {"none", "lakehouse", "cosmos"},
   rows : Contents, seen : Contents, next : 1 .. 4, crossed : BOOLEAN]
Files == [id : (Processes \cup {"none"}) \X Nat, rows : Contents]

\* The types of what the runs hold and leave behind.
RunTypes ==
  /\ gold \in Tables
  /\ runs \in [Processes -> Runs]
  /\ files \in [1 .. 3 -> Files]

\* The files a run has written since its first upload are its own, unless it was crossed.
OwnFiles ==
  \A p \in Processes : runs[p].stage \in {"loaded", "done"} /\ ~runs[p].crossed =>
    \A k \in 1 .. 3 : k < runs[p].next =>
      files[k].id = <<p, runs[p].attempt>> /\ files[k].rows = runs[p].rows

\* What a run reports is what it read; a run that has yet to read has neither rows nor files,
\* and one that is done has all files behind it.
Reading ==
  \A p \in Processes :
    /\ runs[p].stage \in {"loaded", "done"} =>
         runs[p].rows = IF runs[p].source = "lakehouse" THEN runs[p].seen ELSE {}
    /\ runs[p].stage = "load" => runs[p].next = 1 /\ runs[p].rows = {}
    /\ runs[p].stage = "done" /\ ~runs[p].dry => runs[p].next = 4

\* The inductive invariant.
FiledInv == RunTypes /\ OwnFiles /\ Reading

LEMMA FiledInit == EbaInit => FiledInv
BY DEF EbaInit, FiledInv, RunTypes, OwnFiles, Reading, NoRun, NoFile, Runs, Files, Contents, Stages,
       Processes

LEMMA BeginKeeps ==
  ASSUME FiledInv, NEW p \in Processes, Begin(p)
  PROVE  FiledInv'
<1>1. PICK dry \in BOOLEAN :
        runs' = [runs EXCEPT ![p] = [NoRun EXCEPT !.stage = "load", !.attempt = runs[p].attempt + 1,
                                                 !.dry = dry]]
  BY DEF Begin
<1>2. runs'[p] = [stage |-> "load", attempt |-> runs[p].attempt + 1, dry |-> dry,
                  source |-> "none", rows |-> {}, seen |-> {}, next |-> 1, crossed |-> FALSE]
  BY <1>1 DEF FiledInv, RunTypes, NoRun
<1>3. \A q \in Processes \ {p} : runs'[q] = runs[q]
  BY <1>1 DEF FiledInv, RunTypes
<1>4. RunTypes'
  <2>1. runs[p].attempt + 1 \in Nat /\ {} \in Contents /\ "load" \in Stages
    BY DEF FiledInv, RunTypes, Runs, Contents, Stages
  <2>2. runs'[p] \in Runs
    BY <1>2, <2>1 DEF Runs
  <2> QED
    BY <1>1, <2>2 DEF FiledInv, RunTypes, Begin
<1>5. OwnFiles'
  BY <1>2, <1>3 DEF FiledInv, OwnFiles, Begin
<1>6. Reading'
  BY <1>2, <1>3 DEF FiledInv, Reading
<1> QED
  BY <1>4, <1>5, <1>6 DEF FiledInv

LEMMA LoadKeeps ==
  ASSUME FiledInv, NEW p \in Processes, Load(p)
  PROVE  FiledInv'
<1>1. runs[p].stage = "load" /\ runs[p] \in Runs /\ runs[p].next = 1 /\ runs[p].rows = {}
  BY DEF FiledInv, RunTypes, Reading, Load
<1> DEFINE loaded == runs'[p].stage = "loaded" =>
                       runs'[p].rows = IF runs'[p].source = "lakehouse" THEN runs'[p].seen ELSE {}
<1>2. /\ runs'[p] \in Runs /\ runs' = [runs EXCEPT ![p] = runs'[p]]
      /\ runs'[p].stage \in {"loaded", "failed"} /\ runs'[p].next = 1 /\ loaded
  <2>1. gold \in Contents /\ "lakehouse" \in {"none", "lakehouse", "cosmos"}
        /\ "cosmos" \in {"none", "lakehouse", "cosmos"} /\ {"loaded", "failed"} \subseteq Stages
        /\ runs \in [Processes -> Runs]
    BY DEF FiledInv, RunTypes, Contents, Stages
  <2>2. CASE runs' = [runs EXCEPT ![p].stage = "loaded", ![p].source = "lakehouse",
                                  ![p].rows = gold, ![p].seen = gold]
    <3>1. runs'[p] = [stage |-> "loaded", attempt |-> runs[p].attempt, dry |-> runs[p].dry,
                      source |-> "lakehouse", rows |-> gold, seen |-> gold, next |-> 1,
                      crossed |-> runs[p].crossed]
      BY <1>1, <2>1, <2>2 DEF Runs
    <3>2. runs' = [runs EXCEPT ![p] = runs'[p]]
      BY <2>1, <2>2
    <3> QED
      BY <1>1, <2>1, <3>1, <3>2 DEF Runs
  <2>3. CASE runs' = [runs EXCEPT ![p].stage = "loaded", ![p].source = "cosmos"]
    <3>1. runs'[p] = [stage |-> "loaded", attempt |-> runs[p].attempt, dry |-> runs[p].dry,
                      source |-> "cosmos", rows |-> {}, seen |-> runs[p].seen, next |-> 1,
                      crossed |-> runs[p].crossed]
      BY <1>1, <2>1, <2>3 DEF Runs
    <3>2. runs' = [runs EXCEPT ![p] = runs'[p]]
      BY <2>1, <2>3
    <3>3. {} \in Contents
      BY DEF Contents
    <3> QED
      BY <1>1, <2>1, <3>1, <3>2, <3>3 DEF Runs
  <2>4. CASE runs' = [runs EXCEPT ![p].stage = "failed"]
    <3>1. runs'[p] = [stage |-> "failed", attempt |-> runs[p].attempt, dry |-> runs[p].dry,
                      source |-> runs[p].source, rows |-> {}, seen |-> runs[p].seen, next |-> 1,
                      crossed |-> runs[p].crossed]
      BY <1>1, <2>1, <2>4 DEF Runs
    <3>2. runs' = [runs EXCEPT ![p] = runs'[p]]
      BY <2>1, <2>4
    <3>3. {} \in Contents
      BY DEF Contents
    <3> QED
      BY <1>1, <2>1, <3>1, <3>2, <3>3 DEF Runs
  <2> QED
    BY <2>2, <2>3, <2>4 DEF Load
<1>3. \A q \in Processes \ {p} : runs'[q] = runs[q]
  BY <1>2 DEF FiledInv, RunTypes
<1>4. RunTypes'
  BY <1>2 DEF FiledInv, RunTypes, Load
<1>5. OwnFiles'
  BY <1>2, <1>3 DEF FiledInv, OwnFiles, Load
<1>6. Reading'
  BY <1>2, <1>3 DEF FiledInv, Reading
<1> QED
  BY <1>4, <1>5, <1>6 DEF FiledInv

\* Of the other run, an upload only says that it was crossed, if it had begun to write.
LEMMA UploadKeeps ==
  ASSUME FiledInv, NEW p \in Processes, Upload(p)
  PROVE  FiledInv'
<1> DEFINE n == runs[p].next
           file == [id |-> <<p, runs[p].attempt>>, rows |-> runs[p].rows]
<1>1. runs[p] \in Runs /\ n \in 1 .. 3 /\ runs[p].stage = "loaded" /\ ~runs[p].dry
  BY DEF FiledInv, RunTypes, Upload, Runs
<1>2. files' = [files EXCEPT ![n] = file] /\ file \in Files
  BY <1>1 DEF Upload, ToUpload, Files, Runs
<1>3. runs'[p] = [runs[p] EXCEPT !.next = n + 1,
                                 !.crossed = IF n = 1 THEN FALSE ELSE runs[p].crossed]
  BY DEF Upload
<1>4. \A q \in Processes \ {p} :
        runs'[q] = [runs[q] EXCEPT !.crossed = (runs[q].crossed \/ runs[q].next > 1)]
  BY DEF Upload
<1>5. RunTypes'
  <2>1. runs'[p] \in Runs
    <3>1. PICK b \in BOOLEAN : runs'[p] = [runs[p] EXCEPT !.next = n + 1, !.crossed = b]
      <4>1. (IF n = 1 THEN FALSE ELSE runs[p].crossed) \in BOOLEAN
        BY <1>1 DEF Runs
      <4> HIDE DEF n
      <4> QED
        BY <1>3, <4>1
    <3>2. n + 1 \in 1 .. 4
      BY <1>1
    <3> HIDE DEF n
    <3> QED
      BY <1>1, <3>1, <3>2 DEF Runs
  <2>2. ASSUME NEW q \in Processes \ {p} PROVE runs'[q] \in Runs
    <3>1. runs[q] \in Runs
      BY DEF FiledInv, RunTypes
    <3>2. PICK b \in BOOLEAN : runs'[q] = [runs[q] EXCEPT !.crossed = b]
      BY <1>4
    <3> QED
      BY <3>1, <3>2 DEF Runs
  <2>3. runs' = [q \in Processes |-> runs'[q]]
    BY DEF Upload
  <2> QED
    BY <1>1, <1>2, <2>1, <2>2, <2>3 DEF FiledInv, RunTypes, Upload
<1>6. OwnFiles'
  <2>1. ASSUME NEW k \in 1 .. 3, k < n + 1, ~runs'[p].crossed
        PROVE  files'[k].id = <<p, runs[p].attempt>> /\ files'[k].rows = runs[p].rows
    <3>1. CASE k = n
      BY <3>1, <1>2 DEF FiledInv, RunTypes
    <3>2. CASE k # n
      <4>1. k < n /\ n # 1 /\ ~runs[p].crossed
        BY <1>1, <1>3, <2>1, <3>2 DEF Runs
      <4> QED
        BY <1>1, <1>2, <4>1, <3>2 DEF FiledInv, OwnFiles, RunTypes
    <3> QED
      BY <3>1, <3>2
  <2>2. runs'[p].attempt = runs[p].attempt /\ runs'[p].rows = runs[p].rows /\ runs'[p].next = n + 1
    BY <1>1, <1>3 DEF Runs
  <2>3. ASSUME NEW q \in Processes \ {p}, ~runs'[q].crossed PROVE runs'[q].next = 1
    <3>1. runs[q] \in Runs
      BY DEF FiledInv, RunTypes
    <3>2. runs'[q].next = runs[q].next /\ runs'[q].crossed = (runs[q].crossed \/ runs[q].next > 1)
      BY <1>4, <3>1 DEF Runs
    <3>3. ~(runs[q].next > 1)
      BY <3>2, <2>3
    <3> QED
      BY <3>1, <3>2, <3>3 DEF Runs
  <2> QED
    BY <2>1, <2>2, <2>3 DEF OwnFiles
<1>7. Reading'
  <2>1. /\ runs'[p].stage = "loaded" /\ runs'[p].rows = runs[p].rows
        /\ runs'[p].source = runs[p].source /\ runs'[p].seen = runs[p].seen
    BY <1>1, <1>3 DEF Runs
  <2>2. ASSUME NEW q \in Processes \ {p}
        PROVE  /\ runs[q] \in Runs
               /\ \A f \in DOMAIN runs[q] \ {"crossed"} : runs'[q][f] = runs[q][f]
               /\ runs[q].stage = "load" => runs'[q] = runs[q]
    <3>1. runs[q] \in Runs
      BY DEF FiledInv, RunTypes
    <3>2. runs[q].stage = "load" => runs[q].next = 1
      BY DEF FiledInv, Reading
    <3>3. runs[q].stage = "load" => runs'[q] = runs[q]
      BY <1>4, <3>1, <3>2 DEF Runs
    <3> QED
      BY <1>4, <3>1, <3>3 DEF Runs
  <2>3. \A q \in Processes \ {p} :
          /\ runs'[q].stage = runs[q].stage /\ runs'[q].rows = runs[q].rows
          /\ runs'[q].source = runs[q].source /\ runs'[q].seen = runs[q].seen
          /\ runs'[q].dry = runs[q].dry /\ runs'[q].next = runs[q].next
    BY <2>2 DEF Runs
  <2>4. /\ runs[p].stage = "loaded"
        /\ runs[p].rows = IF runs[p].source = "lakehouse" THEN runs[p].seen ELSE {}
    BY <1>1 DEF FiledInv, Reading
  <2>5. ASSUME NEW q \in Processes \ {p}
        PROVE  /\ runs'[q].stage \in {"loaded", "done"} =>
                    runs'[q].rows = IF runs'[q].source = "lakehouse" THEN runs'[q].seen ELSE {}
               /\ runs'[q].stage = "load" => runs'[q].next = 1 /\ runs'[q].rows = {}
               /\ runs'[q].stage = "done" /\ ~runs'[q].dry => runs'[q].next = 4
    BY <2>3 DEF FiledInv, Reading
  <2> QED
    BY <2>1, <2>4, <2>5 DEF Reading
<1> QED
  BY <1>5, <1>6, <1>7 DEF FiledInv

LEMMA EndKeeps ==
  ASSUME FiledInv, NEW p \in Processes, Finish(p) \/ RunFails(p)
  PROVE  FiledInv'
<1>1. runs[p] \in Runs /\ runs[p].stage = "loaded" /\ UNCHANGED <<gold, files>>
  BY DEF FiledInv, RunTypes, Finish, RunFails
<1>2. PICK stage \in {"done", "failed"} :
        /\ runs' = [runs EXCEPT ![p].stage = stage]
        /\ stage = "done" => runs[p].dry \/ runs[p].next > 3
  BY DEF Finish, RunFails
<1>3. runs'[p] = [runs[p] EXCEPT !.stage = stage] /\ \A q \in Processes \ {p} : runs'[q] = runs[q]
  BY <1>2 DEF FiledInv, RunTypes
<1>4. RunTypes'
  BY <1>1, <1>2 DEF FiledInv, RunTypes, Runs, Stages
<1>5. OwnFiles'
  BY <1>1, <1>3 DEF FiledInv, OwnFiles, Runs
<1>6. Reading'
  BY <1>1, <1>2, <1>3 DEF FiledInv, Reading, Runs
<1> QED
  BY <1>4, <1>5, <1>6 DEF FiledInv

LEMMA FiledNext == FiledInv /\ [EbaNext]_ebaVars => FiledInv'
<1> SUFFICES ASSUME FiledInv, [EbaNext]_ebaVars PROVE FiledInv'
  OBVIOUS
<1>1. CASE Rewrite
  BY <1>1 DEF FiledInv, RunTypes, OwnFiles, Reading, Rewrite
<1>2. CASE UNCHANGED ebaVars
  BY <1>2 DEF FiledInv, RunTypes, OwnFiles, Reading, ebaVars
<1> QED
  BY <1>1, <1>2, BeginKeeps, LoadKeeps, UploadKeeps, EndKeeps DEF EbaNext

\* Whatever the tables hold, and however attempts, runs by hand, rewritten tables and failing
\* uploads interleave: a finished run that no other wrote beside has left its own report in all
\* three files, made of the table it read or of nothing (cli, load_rows, upload_to_adls).
THEOREM FinishedRunsAreFiled == EbaSpec => []FinishedRunIsFiled
<1>1. FiledInv => FinishedRunIsFiled
  <2> SUFFICES ASSUME FiledInv, NEW p \in Processes, runs[p].stage = "done", ~runs[p].dry,
                      ~runs[p].crossed, NEW k \in 1 .. 3
               PROVE  /\ files[k].id = <<p, runs[p].attempt>>
                      /\ files[k].rows = IF runs[p].source = "lakehouse" THEN runs[p].seen ELSE {}
    BY DEF FinishedRunIsFiled
  <2>1. k < runs[p].next
    BY DEF FiledInv, Reading
  <2> QED
    BY <2>1 DEF FiledInv, OwnFiles, Reading
<1> QED
  BY <1>1, FiledInit, FiledNext, PTL DEF EbaSpec
-----------------------------------------------------------------------------
(* The deployment's password. *)
Passwords == (Operators \X Nat) \cup {NoPassword, FromEnv}
DeployStages == {"idle", "refused", "checked", "created", "captured", "done", "not stored", "failed"}

DeployTypes ==
  /\ deploys \in Nat
  /\ deploy \in [Operators -> [stage : DeployStages, password : Passwords]]

\* The inductive invariant: unless deployments overlapped, one is under way at most; once it has
\* created its resources, Synapse has its password or is gone; and a password that only a
\* deleted vault can hold is nobody's but that of a run that ended without storing it.
PasswordInv ==
  /\ DeployTypes
  /\ \A o, p \in Operators : ~overlapped /\ Under(o) /\ Under(p) => o = p
  /\ \A o \in Operators : ~overlapped /\ deploy[o].stage \in {"created", "captured"} =>
                             sql \in {NoPassword, deploy[o].password}
  /\ vault = "deleted" => sql \in {NoPassword} \cup unstored
  /\ SecretKept

LEMMA PasswordInit == DeployInit => PasswordInv
BY DEF DeployInit, PasswordInv, DeployTypes, SecretKept, Under, NoDeploy, Passwords, DeployStages

\* What a step of one operator's run to its next stage does.
LEMMA ReachStage ==
  ASSUME DeployTypes, NEW o \in Operators, NEW stage \in DeployStages, Reach(o, stage)
  PROVE  /\ deploy' \in [Operators -> [stage : DeployStages, password : Passwords]]
         /\ deploy'[o].stage = stage
         /\ \A p \in Operators : deploy'[p].password = deploy[p].password
         /\ \A p \in Operators \ {o} : deploy'[p] = deploy[p]
         /\ unstored \subseteq unstored'
         /\ stage \in {"failed", "not stored"} => deploy[o].password \in unstored'
BY DEF DeployTypes, Reach

LEMMA PrepareKeeps ==
  ASSUME PasswordInv, NEW o \in Operators, Prepare(o)
  PROVE  PasswordInv'
<1>1. PICK stage \in {"checked", "refused"}, password \in {<<o, deploys + 1>>, FromEnv} :
        deploy' = [deploy EXCEPT ![o] = [stage |-> stage, password |-> password]]
  BY DEF Prepare
<1>2. DeployTypes'
  <2>1. deploys + 1 \in Nat /\ deploys' = deploys + 1
    BY DEF PasswordInv, DeployTypes, Prepare
  <2>2. [stage |-> stage, password |-> password] \in [stage : DeployStages, password : Passwords]
    <3>1. password \in Passwords
      BY <2>1 DEF Passwords
    <3> QED
      BY <3>1 DEF DeployStages
  <2> QED
    BY <1>1, <2>1, <2>2 DEF PasswordInv, DeployTypes
<1>3. /\ deploy'[o].stage = stage /\ \A p \in Operators \ {o} : deploy'[p] = deploy[p]
      /\ ~Under(o)
  BY <1>1 DEF PasswordInv, DeployTypes, Prepare
<1>4. \A p \in Operators \ {o} : ~overlapped' => ~overlapped /\ ~Under(p) /\ ~(Under(p)')
  BY <1>3 DEF Prepare, Under
<1>5. SecretKept'
  BY <1>3, <1>4 DEF PasswordInv, SecretKept, Prepare, Under
<1> QED
  BY <1>2, <1>3, <1>4, <1>5 DEF PasswordInv, Prepare, Under

LEMMA CreateKeeps ==
  ASSUME PasswordInv, NEW o \in Operators, Create(o)
  PROVE  PasswordInv'
<1>1. PICK stage \in {"failed", "created"} : Reach(o, stage)
  BY DEF Create
<1>2. /\ DeployTypes' /\ deploy'[o].stage = stage
      /\ \A p \in Operators : deploy'[p].password = deploy[p].password
      /\ \A p \in Operators \ {o} : deploy'[p] = deploy[p]
      /\ unstored \subseteq unstored'
      /\ stage = "failed" => deploy[o].password \in unstored'
  BY <1>1, ReachStage DEF PasswordInv, DeployTypes, Create, DeployStages
<1>3. /\ deploy[o].stage = "checked" /\ Under(o) /\ UNCHANGED <<secret, overlapped>>
      /\ sql' \in {sql, deploy[o].password}
      /\ sql' # sql => sql' = deploy[o].password
      /\ vault' = "deleted" => vault = "deleted" 
  BY DEF Create, Under
<1>4. stage = "created" => sql' = deploy[o].password /\ vault' = "live"
  BY <1>1, <1>2, ReachStage DEF Create, PasswordInv, DeployStages
<1>5. \A p, q \in Operators : ~overlapped' /\ Under(p)' /\ Under(q)' => p = q
  BY <1>2, <1>3 DEF PasswordInv, Under
<1>6. \A p \in Operators : ~overlapped' /\ deploy'[p].stage \in {"created", "captured"} =>
                              sql' \in {NoPassword, deploy'[p].password}
  BY <1>1, <1>2, <1>3, <1>4 DEF PasswordInv, Under
<1>7. vault' = "deleted" => sql' \in {NoPassword} \cup unstored'
  BY <1>1, <1>2, <1>3, <1>4 DEF PasswordInv
<1>8. SecretKept'
  <2>1. CASE sql' = deploy[o].password
    BY <1>1, <1>2, <1>3, <2>1 DEF SecretKept, Under
  <2>2. CASE sql' = sql /\ sql # deploy[o].password
    BY <1>1, <1>2, <1>3, <2>2 DEF SecretKept, Under, PasswordInv
  <2> QED
    BY <1>3, <2>1, <2>2
<1> QED
  BY <1>2, <1>5, <1>6, <1>7, <1>8 DEF PasswordInv

LEMMA CaptureKeeps ==
  ASSUME PasswordInv, NEW o \in Operators, Capture(o)
  PROVE  PasswordInv'
<1>1. PICK stage \in {"failed", "captured"} : Reach(o, stage)
  BY DEF Capture
<1>2. /\ DeployTypes' /\ deploy'[o].stage = stage
      /\ \A p \in Operators : deploy'[p].password = deploy[p].password
      /\ \A p \in Operators \ {o} : deploy'[p] = deploy[p]
      /\ unstored \subseteq unstored'
      /\ stage = "failed" => deploy[o].password \in unstored'
  BY <1>1, ReachStage DEF PasswordInv, DeployTypes, Capture, DeployStages
<1>3. deploy[o].stage = "created" /\ UNCHANGED <<sql, vault, secret, overlapped>>
  BY DEF Capture
<1>4. SecretKept'
  BY <1>1, <1>2, <1>3 DEF PasswordInv, SecretKept, Under
<1> QED
  BY <1>1, <1>2, <1>3, <1>4 DEF PasswordInv, Under

\* The password stored takes the place of another: that is nobody's, as Synapse has had the one
\* stored since its resources were created, or is gone.
LEMMA StoreKeeps ==
  ASSUME PasswordInv, NEW o \in Operators, Store(o)
  PROVE  PasswordInv'
<1>1. PICK stage \in {"done", "not stored"} : Reach(o, stage)
  BY DEF Store
<1>2. /\ DeployTypes' /\ deploy'[o].stage = stage
      /\ \A p \in Operators : deploy'[p].password = deploy[p].password
      /\ \A p \in Operators \ {o} : deploy'[p] = deploy[p]
      /\ unstored \subseteq unstored'
      /\ stage = "not stored" => deploy[o].password \in unstored'
  BY <1>1, ReachStage DEF PasswordInv, DeployTypes, Store, DeployStages
<1>3. /\ deploy[o].stage = "captured" /\ Under(o) /\ UNCHANGED <<sql, vault, overlapped>>
      /\ secret' \in {secret, deploy[o].password}
      /\ stage = "done" => secret' = deploy[o].password
  BY <1>1, <1>2, ReachStage DEF Store, Stored, Under, PasswordInv, DeployStages
<1>4. ~overlapped => sql \in {NoPassword, deploy[o].password}
  BY <1>3 DEF PasswordInv
<1>5. SecretKept'
  BY <1>1, <1>2, <1>3, <1>4 DEF SecretKept, PasswordInv
<1> QED
  BY <1>1, <1>2, <1>3, <1>5 DEF PasswordInv, Under

LEMMA PasswordNext == PasswordInv /\ [DeployNext]_deployVars => PasswordInv'
<1> SUFFICES ASSUME PasswordInv, [DeployNext]_deployVars PROVE PasswordInv'
  OBVIOUS
<1>1. CASE Teardown
  BY <1>1 DEF PasswordInv, DeployTypes, SecretKept, Under, Teardown
<1>2. CASE GroupDeleted
  BY <1>2 DEF PasswordInv, DeployTypes, SecretKept, Under, GroupDeleted
<1>3. CASE VaultExpires
  BY <1>3 DEF PasswordInv, DeployTypes, SecretKept, Under, VaultExpires
<1>4. CASE UNCHANGED deployVars
  BY <1>4 DEF PasswordInv, DeployTypes, SecretKept, Under, deployVars
<1> QED
  BY <1>1, <1>2, <1>3, <1>4, PrepareKeeps, CreateKeeps, CaptureKeeps, StoreKeeps DEF DeployNext

LEMMA DeployTypesNext ==
  PasswordInv /\ DeployTypeOK /\ [DeployNext]_deployVars => DeployTypeOK'
<1> SUFFICES ASSUME PasswordInv, DeployTypeOK, [DeployNext]_deployVars PROVE DeployTypeOK'
  OBVIOUS
<1>1. DeployTypes
  BY DEF PasswordInv
<1>2. ASSUME NEW o \in Operators, Prepare(o) PROVE DeployTypeOK'
  <2>1. /\ deploys < MaxDeploys /\ deploys' = deploys + 1
        /\ UNCHANGED <<group, vault, outputs>>
        /\ deploy'[o].stage \in {"checked", "refused"}
        /\ \A p \in Operators \ {o} : deploy'[p] = deploy[p]
    BY <1>1, <1>2 DEF DeployTypes, Prepare
  <2>2. deploys \in Nat /\ MaxDeploys \in Nat
    BY <1>1, DeployAssumption DEF DeployTypes
  <2>3. deploys' \in 0 .. MaxDeploys
    BY <2>1, <2>2
  <2> QED
    BY <2>1, <2>3 DEF DeployTypeOK
<1>3. ASSUME NEW o \in Operators, Create(o) PROVE DeployTypeOK'
  BY <1>1, <1>3 DEF DeployTypeOK, DeployTypes, Create, Reach
<1>4. ASSUME NEW o \in Operators, Capture(o) PROVE DeployTypeOK'
  BY <1>1, <1>4, DeployAssumption DEF DeployTypeOK, DeployTypes, Capture, Reach
<1>5. ASSUME NEW o \in Operators, Store(o) PROVE DeployTypeOK'
  BY <1>1, <1>5 DEF DeployTypeOK, DeployTypes, Store, Reach
<1>6. CASE Teardown \/ GroupDeleted \/ VaultExpires \/ UNCHANGED deployVars
  BY <1>6 DEF DeployTypeOK, Teardown, GroupDeleted, VaultExpires, deployVars
<1> QED
  BY <1>2, <1>3, <1>4, <1>5, <1>6 DEF DeployNext
-----------------------------------------------------------------------------
(* The scorecard. *)
Owners == Runners \cup {"earlier"}
Judgements == {<<>>} \cup [info : Owners, loaded : Owners, train : Owners, test : Owners]
ScoringRuns ==
  [by : {"none", "script", "python"}, at : 0 .. 6 \cup {9}, version : Nat, listed : BOOLEAN,
   judged : Judgements, crossed : BOOLEAN]

ScorecardTypes ==
  /\ registry \in [Assets -> Seq(Runners)]
  /\ scoring \in [Runners -> ScoringRuns]
  /\ \A r \in Runners : scoring[r].at # 0 => scoring[r].by # "none"

\* The last version of an asset came from this runner.
LastIsOf(asset, r) == registry[asset] # <<>> /\ registry[asset][Len(registry[asset])] = r

\* The inductive invariant: what a run that nobody crossed has registered is the latest; the
\* version it goes by is one it registered.
OwnAssetsAreLatest ==
  \A r \in Runners : ~scoring[r].crossed /\ scoring[r].at <= 5 =>
    \A i \in 1 .. 3 : i < scoring[r].at => LastIsOf(Order[i], r)

IsVersionOf(v, r) ==
  v \in FirstVersion + 1 .. Latest("model") /\ registry["model"][v - FirstVersion] = r

VersionIsOwn ==
  \A r \in Runners :
    LET run == scoring[r]
    IN /\ run.at \in {4, 5} => registry["model"] # <<>>
       /\ \/ run.at = 4
          \/ run.at = 5 /\ run.listed /\ (run.by = "script" => ~run.crossed)
          => IsVersionOf(run.version, r)

ScorecardInv == ScorecardTypes /\ OwnAssetsAreLatest /\ VersionIsOwn /\ ScorecardIsOfItsModel

LEMMA ScorecardStart == ScorecardInit => ScorecardInv
<1> SUFFICES ASSUME ScorecardInit PROVE ScorecardInv
  OBVIOUS
<1>1. NoRunYet \in ScoringRuns
  BY DEF NoRunYet, ScoringRuns, Judgements
<1>2. ScorecardTypes
  BY <1>1 DEF ScorecardInit, ScorecardTypes, ScoringRuns, NoRunYet
<1>3. \A r \in Runners : scoring[r].at = 0
  BY DEF ScorecardInit, NoRunYet
<1> QED
  BY <1>2, <1>3 DEF ScorecardInv, OwnAssetsAreLatest, VersionIsOwn, ScorecardIsOfItsModel

\* A step that leaves the registry alone only has to answer for its own run.
LEMMA OwnStepKeeps ==
  ASSUME ScorecardInv, NEW r \in Runners, UNCHANGED registry,
         scoring' = [scoring EXCEPT ![r] = scoring'[r]], scoring'[r] \in ScoringRuns,
         scoring'[r].at # 0 => scoring'[r].by # "none",
         \A i \in 1 .. 3 : ~scoring'[r].crossed /\ scoring'[r].at <= 5 /\ i < scoring'[r].at =>
           LastIsOf(Order[i], r),
         scoring'[r].at \in {4, 5} => registry["model"] # <<>>,
         \A v : /\ v = scoring'[r].version
                /\ \/ scoring'[r].at = 4
                   \/ /\ scoring'[r].at = 5 /\ scoring'[r].listed
                      /\ scoring'[r].by = "script" => ~scoring'[r].crossed
                => IsVersionOf(v, r),
         scoring'[r].at = 6 /\ ~scoring'[r].crossed =>
           /\ scoring'[r].judged.loaded = r /\ scoring'[r].judged.train = r
           /\ scoring'[r].judged.test = r,
         /\ scoring'[r].at = 6 /\ scoring'[r].listed
         /\ scoring'[r].by = "script" => ~scoring'[r].crossed
         => scoring'[r].judged.info = r
  PROVE  ScorecardInv'
<1>1. ScorecardTypes
  BY DEF ScorecardInv
<1>2. \A q \in Runners \ {r} : scoring'[q] = scoring[q]
  BY <1>1 DEF ScorecardTypes
<1>3. ScorecardTypes'
  BY <1>1, <1>2 DEF ScorecardTypes
<1>4. OwnAssetsAreLatest'
  BY <1>2 DEF ScorecardInv, OwnAssetsAreLatest, LastIsOf
<1>5. VersionIsOwn'
  BY <1>2 DEF ScorecardInv, VersionIsOwn, IsVersionOf, Latest
<1>6. ScorecardIsOfItsModel'
  BY <1>2 DEF ScorecardInv, ScorecardIsOfItsModel
<1> QED
  BY <1>3, <1>4, <1>5, <1>6 DEF ScorecardInv

LEMMA StartScoringKeeps ==
  ASSUME ScorecardInv, NEW r \in Runners, StartScoring(r)
  PROVE  ScorecardInv'
<1>1. PICK by \in {"script", "python"} : scoring' = [scoring EXCEPT ![r].by = by, ![r].at = 1]
  BY DEF StartScoring
<1>2. scoring \in [Runners -> ScoringRuns]
  BY DEF ScorecardInv, ScorecardTypes
<1>3. scoring' = [scoring EXCEPT ![r] = scoring'[r]] /\ UNCHANGED registry
  BY <1>1, <1>2 DEF StartScoring
<1>4. scoring'[r] = [by |-> by, at |-> 1, version |-> 0, listed |-> TRUE, judged |-> <<>>,
                     crossed |-> FALSE]
  BY <1>1, <1>2 DEF StartScoring, NoRunYet
<1>5. scoring'[r] \in ScoringRuns /\ scoring'[r].at = 1 /\ scoring'[r].by # "none"
  BY <1>4 DEF ScoringRuns, Judgements
<1> QED
  BY <1>3, <1>5, OwnStepKeeps

\* What registering a version of an asset leaves: it is the last one, and the others, and the
\* versions of the model there were, stay those of their runs.
LEMMA Registered ==
  ASSUME ScorecardTypes, NEW r \in Runners, NEW asset \in Assets,
         registry' = [registry EXCEPT ![asset] = Append(@, r)]
  PROVE  /\ registry' \in [Assets -> Seq(Runners)]
         /\ LastIsOf(asset, r)'
         /\ \A a \in Assets : registry[a] # <<>> => registry'[a] # <<>>
         /\ \A a \in Assets \ {asset} : registry'[a] = registry[a]
         /\ \A v : asset = "model" /\ v = Latest("model") + 1 => IsVersionOf(v, r)'
         /\ \A v, q : IsVersionOf(v, q) => IsVersionOf(v, q)'
<1>1. registry[asset] \in Seq(Runners) /\ registry'[asset] = Append(registry[asset], r)
      /\ \A a \in Assets \ {asset} : registry'[a] = registry[a]
  BY DEF ScorecardTypes
<1>2. registry' \in [Assets -> Seq(Runners)]
  BY <1>1 DEF ScorecardTypes
<1>3. LastIsOf(asset, r)' /\ \A a \in Assets : registry[a] # <<>> => registry'[a] # <<>>
  BY <1>1 DEF LastIsOf
<1>4. ASSUME NEW v, asset = "model", v = Latest("model") + 1 PROVE IsVersionOf(v, r)'
  BY <1>1, <1>4, ScorecardAssumption DEF IsVersionOf, Latest
<1>5. ASSUME NEW v, NEW q, IsVersionOf(v, q) PROVE IsVersionOf(v, q)'
  BY <1>1, <1>5, ScorecardAssumption DEF IsVersionOf, Latest, Assets
<1> QED
  BY <1>1, <1>2, <1>3, <1>4, <1>5

\* Of the runs, registering only changes the one that does, and says of the others that they
\* were crossed, if they had begun to register.
LEMMA RegisterSucceeds ==
  ASSUME ScorecardInv, NEW r \in Runners, scoring[r].at \in 1 .. 3, NEW asset \in Assets,
         asset = Order[scoring[r].at],
         registry' = [registry EXCEPT ![asset] = Append(@, r)],
         scoring' = [q \in Runners |->
           IF q = r THEN [scoring[r] EXCEPT !.at = @ + 1,
                            !.version = IF asset = "model" THEN Latest("model") + 1 ELSE @]
           ELSE [scoring[q] EXCEPT !.crossed = @ \/ scoring[q].at > 1]]
  PROVE  ScorecardInv'
<1> DEFINE at == scoring[r].at
           version == IF asset = "model" THEN Latest("model") + 1 ELSE scoring[r].version
<1>1. ScorecardTypes /\ scoring \in [Runners -> ScoringRuns]
  BY DEF ScorecardInv, ScorecardTypes
<1>2. version \in Nat
  <2>1. Latest("model") \in Nat
    BY <1>1, ScorecardAssumption DEF ScorecardTypes, Latest, Assets
  <2> QED
    BY <1>1, <2>1 DEF ScoringRuns
<1>3. /\ scoring'[r] \in ScoringRuns /\ scoring'[r].at = at + 1 /\ scoring'[r].by = scoring[r].by
      /\ scoring'[r].version = version /\ scoring'[r].crossed = scoring[r].crossed
  <2>1. scoring'[r] = [scoring[r] EXCEPT !.at = at + 1, !.version = version]
    OBVIOUS
  <2>2. at + 1 \in 0 .. 6 \cup {9} /\ scoring[r] \in ScoringRuns
    BY <1>1
  <2> HIDE DEF at, version
  <2> QED
    BY <1>2, <2>1, <2>2 DEF ScoringRuns
<1>4. ASSUME NEW q \in Runners \ {r}
      PROVE  /\ scoring'[q] \in ScoringRuns
             /\ scoring'[q].at = scoring[q].at /\ scoring'[q].by = scoring[q].by
             /\ scoring'[q].version = scoring[q].version /\ scoring'[q].listed = scoring[q].listed
             /\ scoring'[q].judged = scoring[q].judged
             /\ ~scoring'[q].crossed => ~scoring[q].crossed /\ ~(scoring[q].at > 1)
  <2>1. PICK b \in BOOLEAN : /\ b = (scoring[q].crossed \/ scoring[q].at > 1)
                             /\ scoring'[q] = [scoring[q] EXCEPT !.crossed = b]
    OBVIOUS
  <2>2. scoring[q] \in ScoringRuns
    BY <1>1
  <2>3. scoring'[q] = [scoring[q] EXCEPT !.crossed = b] /\ b \in BOOLEAN
    BY <2>1
  <2>4. /\ scoring'[q] \in ScoringRuns /\ scoring'[q].crossed = b
        /\ scoring'[q].at = scoring[q].at /\ scoring'[q].by = scoring[q].by
        /\ scoring'[q].version = scoring[q].version /\ scoring'[q].listed = scoring[q].listed
        /\ scoring'[q].judged = scoring[q].judged
    BY <2>2, <2>3 DEF ScoringRuns
  <2>5. ~b => ~scoring[q].crossed /\ ~(scoring[q].at > 1)
    BY <2>1
  <2> QED
    BY <2>4, <2>5
<1>5. /\ registry' \in [Assets -> Seq(Runners)]
      /\ LastIsOf(asset, r)'
      /\ \A a \in Assets : registry[a] # <<>> => registry'[a] # <<>>
      /\ \A a \in Assets \ {asset} : registry'[a] = registry[a]
      /\ \A v : asset = "model" /\ v = Latest("model") + 1 => IsVersionOf(v, r)'
      /\ \A v, q : IsVersionOf(v, q) => IsVersionOf(v, q)'
  BY <1>1, Registered
<1>6. ScorecardTypes'
  <2>1. scoring' \in [Runners -> ScoringRuns]
    BY <1>3, <1>4
  <2>2. \A q \in Runners : scoring'[q].at # 0 => scoring'[q].by # "none"
    BY <1>1, <1>3, <1>4 DEF ScorecardTypes
  <2> QED
    BY <1>5, <2>1, <2>2 DEF ScorecardTypes
<1>7. OwnAssetsAreLatest'
  <2>1. ASSUME ~scoring[r].crossed, NEW i \in 1 .. 3, i < at + 1
        PROVE  LastIsOf(Order[i], r)'
    <3>1. CASE i = at
      BY <1>5, <3>1
    <3>2. CASE i # at
      <4>1. i < at
        BY <2>1, <3>2
      <4>2. LastIsOf(Order[i], r)
        BY <2>1, <4>1 DEF ScorecardInv, OwnAssetsAreLatest
      <4>3. Order[i] \in Assets \ {asset}
        BY <3>2 DEF Order, Assets
      <4> QED
        BY <1>5, <4>2, <4>3 DEF LastIsOf
    <3> QED
      BY <3>1, <3>2
  <2>2. ASSUME NEW q \in Runners \ {r}, ~scoring'[q].crossed, NEW i \in 1 .. 3
        PROVE  ~(i < scoring'[q].at)
    <3>1. scoring[q].at \in 0 .. 6 \cup {9}
      BY <1>1 DEF ScoringRuns
    <3> QED
      BY <1>4, <2>2, <3>1
  <2> QED
    BY <1>3, <2>1, <2>2 DEF OwnAssetsAreLatest
<1>8. VersionIsOwn'
  <2>1. scoring'[r].at \in {4, 5} =>
          scoring'[r].at = 4 /\ registry'["model"] # <<>> /\ IsVersionOf(scoring[r].version, r)'
    <3>1. SUFFICES ASSUME scoring'[r].at \in {4, 5}
                   PROVE  /\ scoring'[r].at = 4 /\ registry'["model"] # <<>>
                          /\ IsVersionOf(scoring[r].version, r)'
      OBVIOUS
    <3>2. at = 3 /\ scoring'[r].at = 4
      BY <1>3, <3>1
    <3>3. asset = "model"
      BY <3>2 DEF Order
    <3> QED
      BY <1>3, <1>5, <3>2, <3>3 DEF LastIsOf
  <2>2. ASSUME NEW q \in Runners \ {r}
        PROVE  /\ scoring'[q].at \in {4, 5} => registry'["model"] # <<>>
               /\ \/ scoring'[q].at = 4
                  \/ /\ scoring'[q].at = 5 /\ scoring'[q].listed
                     /\ scoring'[q].by = "script" => ~scoring'[q].crossed
                  => IsVersionOf(scoring[q].version, q)'
    <3>1. scoring'[q].at \in {4, 5} => registry'["model"] # <<>>
      BY <1>4, <1>5 DEF ScorecardInv, VersionIsOwn, Assets
    <3>2. ASSUME \/ scoring'[q].at = 4
                 \/ /\ scoring'[q].at = 5 /\ scoring'[q].listed
                    /\ scoring'[q].by = "script" => ~scoring'[q].crossed
          PROVE  IsVersionOf(scoring[q].version, q)'
      <4>1. IsVersionOf(scoring[q].version, q)
        BY <1>4, <3>2 DEF ScorecardInv, VersionIsOwn
      <4> QED
        BY <1>4, <1>5, <4>1
    <3> QED
      BY <3>1, <3>2
  <2> QED
    BY <2>1, <2>2 DEF VersionIsOwn
<1>9. ScorecardIsOfItsModel'
  <2>1. scoring'[r].at # 6
    BY <1>3
  <2>2. ASSUME NEW q \in Runners \ {r}, scoring'[q].at = 6
        PROVE  /\ ~scoring'[q].crossed => /\ scoring'[q].judged.loaded = q
                                          /\ scoring'[q].judged.train = q
                                          /\ scoring'[q].judged.test = q
               /\ scoring'[q].listed /\ (scoring'[q].by = "script" => ~scoring'[q].crossed)
                    => scoring'[q].judged.info = q
    <3>1. /\ ~scoring[q].crossed => /\ scoring[q].judged.loaded = q
                                    /\ scoring[q].judged.train = q
                                    /\ scoring[q].judged.test = q
          /\ scoring[q].listed /\ (scoring[q].by = "script" => ~scoring[q].crossed)
               => scoring[q].judged.info = q
      BY <1>4, <2>2 DEF ScorecardInv, ScorecardIsOfItsModel
    <3> QED
      BY <1>4, <3>1
  <2> QED
    BY <2>1, <2>2 DEF ScorecardIsOfItsModel
<1> QED
  BY <1>6, <1>7, <1>8, <1>9 DEF ScorecardInv

LEMMA RegisterFails ==
  ASSUME ScorecardInv, NEW r \in Runners, UNCHANGED registry,
         scoring' = [scoring EXCEPT ![r].at = 9], scoring[r].at # 0
  PROVE  ScorecardInv'
<1>1. scoring \in [Runners -> ScoringRuns] /\ scoring[r].by # "none"
  BY DEF ScorecardInv, ScorecardTypes
<1>2. /\ scoring' = [scoring EXCEPT ![r] = scoring'[r]]
      /\ scoring'[r] = [scoring[r] EXCEPT !.at = 9]
  BY <1>1
<1>3. scoring'[r] \in ScoringRuns /\ scoring'[r].at = 9 /\ scoring'[r].by = scoring[r].by
  BY <1>1, <1>2 DEF ScoringRuns
<1>4. scoring'[r].at \notin {4, 5} /\ scoring'[r].at # 6 /\ ~(scoring'[r].at <= 5)
      /\ scoring'[r].at # 4 /\ scoring'[r].at # 5
  BY <1>3
<1> QED
  BY <1>1, <1>2, <1>3, <1>4, OwnStepKeeps

LEMMA RegisterKeeps ==
  ASSUME ScorecardInv, NEW r \in Runners, Register(r)
  PROVE  ScorecardInv'
<1>1. scoring[r].at \in 1 .. 3 /\ Order[scoring[r].at] \in Assets
  BY DEF Register, Order, Assets
<1>2. CASE UNCHANGED registry /\ scoring' = [scoring EXCEPT ![r].at = 9]
  <2>1. scoring[r].at # 0
    BY <1>1
  <2> QED
    BY <1>2, <2>1, RegisterFails
<1>3. CASE ~(UNCHANGED registry /\ scoring' = [scoring EXCEPT ![r].at = 9])
  <2> DEFINE asset == Order[scoring[r].at]
  <2>1. /\ registry' = [registry EXCEPT ![asset] = Append(@, r)]
        /\ scoring' = [q \in Runners |->
             IF q = r THEN [scoring[r] EXCEPT !.at = @ + 1,
                              !.version = IF asset = "model" THEN Latest("model") + 1 ELSE @]
             ELSE [scoring[q] EXCEPT !.crossed = @ \/ scoring[q].at > 1]]
    BY <1>3 DEF Register
  <2> QED
    BY <1>1, <2>1, RegisterSucceeds
<1> QED
  BY <1>2, <1>3

\* The greatest of the versions 1 to n.
LEMMA ListedIsLatest ==
  ASSUME NEW n \in Nat \ {0}
  PROVE  Listed(1 .. n) = n
<1>1. n \in 1 .. n /\ \A w \in 1 .. n : w <= n
  OBVIOUS
<1>2. \A v \in 1 .. n : (\A w \in 1 .. n : w <= v) => v = n
  OBVIOUS
<1> QED
  BY <1>1, <1>2 DEF Listed

LEMMA AskVersionKeeps ==
  ASSUME ScorecardInv, NEW r \in Runners, AskVersion(r)
  PROVE  ScorecardInv'
<1>1. /\ scoring \in [Runners -> ScoringRuns] /\ registry["model"] \in Seq(Runners)
      /\ scoring[r].at = 4 /\ scoring[r].by \in {"script", "python"} /\ UNCHANGED registry
      /\ registry["model"] # <<>> /\ IsVersionOf(scoring[r].version, r)
  BY DEF ScorecardInv, ScorecardTypes, VersionIsOwn, AskVersion, Assets, ScoringRuns
<1>2. Latest("model") \in Nat \ {0} /\ FirstVersion \in Nat
  BY <1>1, ScorecardAssumption DEF Latest
<1>3. Listed(1 .. Latest("model")) = Latest("model")
  BY <1>2, ListedIsLatest
<1>4. PICK listed \in BOOLEAN :
        /\ scoring[r].by = "python" => listed
        /\ scoring' = [scoring EXCEPT ![r].at = 5, ![r].listed = listed,
             ![r].version = IF scoring[r].by = "python" THEN @
                            ELSE IF listed THEN Listed(1 .. Latest("model")) ELSE 1]
  BY <1>1 DEF AskVersion
<1> DEFINE version == IF scoring[r].by = "python" THEN scoring[r].version
                      ELSE IF listed THEN Latest("model") ELSE 1
<1>5. /\ scoring' = [scoring EXCEPT ![r] = scoring'[r]]
      /\ scoring'[r] = [scoring[r] EXCEPT !.at = 5, !.listed = listed, !.version = version]
  BY <1>1, <1>3, <1>4
<1>6. version \in Nat
  BY <1>1, <1>2 DEF ScoringRuns
<1>7. /\ scoring'[r] \in ScoringRuns /\ scoring'[r].at = 5 /\ scoring'[r].by = scoring[r].by
      /\ scoring'[r].listed = listed /\ scoring'[r].version = version
      /\ scoring'[r].crossed = scoring[r].crossed
  <2>1. 5 \in 0 .. 6 \cup {9} /\ scoring[r] \in ScoringRuns
    BY <1>1
  <2> HIDE DEF version
  <2> QED
    BY <1>5, <1>6, <2>1 DEF ScoringRuns
<1>8. ~scoring[r].crossed => \A i \in 1 .. 3 : LastIsOf(Order[i], r)
  BY <1>1 DEF ScorecardInv, OwnAssetsAreLatest
<1>9. ASSUME listed, scoring[r].by = "script" => ~scoring[r].crossed
      PROVE  IsVersionOf(version, r)
  <2>1. CASE scoring[r].by = "python"
    BY <1>1, <2>1
  <2>2. CASE scoring[r].by = "script"
    <3>1. LastIsOf("model", r)
      BY <1>8, <1>9, <2>2 DEF Order
    <3>2. version = Latest("model")
      BY <1>9, <2>2
    <3> QED
      BY <1>1, <1>2, <3>1, <3>2 DEF LastIsOf, IsVersionOf, Latest
  <2> QED
    BY <1>1, <2>1, <2>2
<1> HIDE DEF version
<1>10. scoring'[r].at # 4 /\ scoring'[r].at # 6 /\ scoring'[r].at # 0
  BY <1>7
<1>11. \A i \in 1 .. 3 : ~scoring'[r].crossed => LastIsOf(Order[i], r)
  BY <1>7, <1>8
<1>12. \A v : /\ v = scoring'[r].version /\ scoring'[r].listed
              /\ scoring'[r].by = "script" => ~scoring'[r].crossed
              => IsVersionOf(v, r)
  BY <1>7, <1>9
<1>13. scoring'[r].by # "none" /\ registry["model"] # <<>> /\ UNCHANGED registry
  BY <1>1, <1>7
<1> QED
  BY <1>5, <1>7, <1>10, <1>11, <1>12, <1>13, OwnStepKeeps

LEMMA OwnersAre ==
  ASSUME ScorecardTypes, NEW r \in Runners
  PROVE  /\ \A a \in Assets, v \in Nat : OwnerOf(a, v) \in Owners
         /\ \A a \in Assets : LastIsOf(a, r) => OwnerOf(a, Latest(a)) = r
         /\ \A v : IsVersionOf(v, r) => OwnerOf("model", v) = r
<1>1. \A a \in Assets : registry[a] \in Seq(Runners) /\ Len(registry[a]) \in Nat
  BY DEF ScorecardTypes
<1>2. ASSUME NEW a \in Assets, NEW v \in Nat PROVE OwnerOf(a, v) \in Owners
  <2>1. CASE v \in FirstVersion + 1 .. Latest(a)
    <3>1. v - FirstVersion \in 1 .. Len(registry[a])
      BY <1>1, <2>1, ScorecardAssumption DEF Latest
    <3> QED
      BY <1>1, <2>1, <3>1 DEF OwnerOf, Owners
  <2> QED
    BY <2>1 DEF OwnerOf, Owners
<1>3. ASSUME NEW a \in Assets, LastIsOf(a, r) PROVE OwnerOf(a, Latest(a)) = r
  <2>1. Len(registry[a]) > 0
    BY <1>1, <1>3 DEF LastIsOf
  <2>2. Latest(a) \in FirstVersion + 1 .. Latest(a) /\ Latest(a) - FirstVersion = Len(registry[a])
    BY <1>1, <2>1, ScorecardAssumption DEF Latest
  <2> QED
    BY <1>3, <2>2 DEF OwnerOf, LastIsOf
<1>4. ASSUME NEW v, IsVersionOf(v, r) PROVE OwnerOf("model", v) = r
  BY <1>4 DEF IsVersionOf, OwnerOf
<1> QED
  BY <1>2, <1>3, <1>4

LEMMA SubmitKeeps ==
  ASSUME ScorecardInv, NEW r \in Runners, Submit(r)
  PROVE  ScorecardInv'
<1>1. /\ ScorecardTypes /\ scoring \in [Runners -> ScoringRuns] /\ scoring[r].by # "none"
      /\ scoring[r].at = 5 /\ UNCHANGED registry
  BY DEF ScorecardInv, ScorecardTypes, Submit
<1> DEFINE judged == [info |-> OwnerOf("model", scoring[r].version),
                      loaded |-> OwnerOf("model", Latest("model")),
                      train |-> OwnerOf("train", Latest("train")),
                      test |-> OwnerOf("test", Latest("test"))]
<1>2. /\ scoring' = [scoring EXCEPT ![r] = scoring'[r]]
      /\ scoring'[r] = [scoring[r] EXCEPT !.at = 6, !.judged = judged]
  BY <1>1 DEF Submit
<1>3. judged \in Judgements
  <2>1. scoring[r].version \in Nat /\ \A a \in Assets : Latest(a) \in Nat
    BY <1>1, ScorecardAssumption DEF ScorecardTypes, ScoringRuns, Latest
  <2>2. /\ OwnerOf("model", scoring[r].version) \in Owners
        /\ OwnerOf("model", Latest("model")) \in Owners
        /\ OwnerOf("train", Latest("train")) \in Owners
        /\ OwnerOf("test", Latest("test")) \in Owners
    BY <1>1, <2>1, OwnersAre DEF Assets
  <2> QED
    BY <2>2 DEF Judgements
<1>4. ~scoring[r].crossed =>
        judged.loaded = r /\ judged.train = r /\ judged.test = r
  <2>1. ASSUME ~scoring[r].crossed
        PROVE  LastIsOf("train", r) /\ LastIsOf("test", r) /\ LastIsOf("model", r)
    BY <1>1, <2>1 DEF ScorecardInv, OwnAssetsAreLatest, Order
  <2> QED
    BY <1>1, <2>1, OwnersAre DEF Assets
<1>5. scoring[r].listed /\ (scoring[r].by = "script" => ~scoring[r].crossed) => judged.info = r
  BY <1>1, OwnersAre DEF ScorecardInv, VersionIsOwn
<1>6. /\ scoring'[r] \in ScoringRuns /\ scoring'[r].at = 6 /\ scoring'[r].by = scoring[r].by
      /\ scoring'[r].judged = judged /\ scoring'[r].listed = scoring[r].listed
      /\ scoring'[r].crossed = scoring[r].crossed
  <2>1. 6 \in 0 .. 6 \cup {9} /\ scoring[r] \in ScoringRuns
    BY <1>1
  <2> HIDE DEF judged
  <2> QED
    BY <1>2, <1>3, <2>1 DEF ScoringRuns
<1>7. scoring'[r].at \notin {4, 5} /\ ~(scoring'[r].at <= 5) /\ scoring'[r].at # 4
      /\ scoring'[r].at # 5
  BY <1>6
<1>8. ~scoring'[r].crossed => /\ scoring'[r].judged.loaded = r /\ scoring'[r].judged.train = r
                              /\ scoring'[r].judged.test = r
  BY <1>4, <1>6
<1>9. scoring'[r].listed /\ (scoring'[r].by = "script" => ~scoring'[r].crossed) =>
        scoring'[r].judged.info = r
  BY <1>5, <1>6
<1>10. scoring'[r].by # "none" /\ UNCHANGED registry
  BY <1>1, <1>6
<1> HIDE DEF judged
<1> QED
  BY <1>2, <1>6, <1>7, <1>8, <1>9, <1>10, OwnStepKeeps

LEMMA ScorecardStep == ScorecardInv /\ [ScorecardNext]_scorecardVars => ScorecardInv'
<1>1. ASSUME ScorecardInv, UNCHANGED scorecardVars PROVE ScorecardInv'
  BY <1>1 DEF ScorecardInv, ScorecardTypes, OwnAssetsAreLatest, VersionIsOwn,
              ScorecardIsOfItsModel, LastIsOf, IsVersionOf, Latest, scorecardVars
<1> QED
  BY <1>1, StartScoringKeeps, RegisterKeeps, AskVersionKeeps, SubmitKeeps DEF ScorecardNext
-----------------------------------------------------------------------------
(* The scaled platform. *)
Sizes == Nat \X Nat
Throughputs == [autoscale : BOOLEAN, ru : Nat]
Given == [autoscale : BOOLEAN, ru : Nat \ {0}]
Capacities == {"Active", "Pausing", "Paused", "Resuming"}
EstateSet ==
  [fabric : Capacities, asa : {"Stopped", "Running"}, orchestrator : Sizes, scoring : Sizes,
   aml : Sizes, container : Given, graph : Throughputs]
ToldSet == Capacities \cup {"none", "Unknown", "autoscale", "graph"}
ScriptRuns ==
  [mode : Modes \cup {"none"}, at : 0 .. 11, known : ToldSet, failed : SUBSET Resources,
   touched : SUBSET Resources, stuck : SUBSET Resources]

ScaleTypes ==
  /\ estate \in EstateSet
  /\ script \in [Shells -> ScriptRuns]
  /\ \A r \in Shells : script[r].mode = "none" => script[r].at = 0
  /\ outages \in 0 .. MaxOutages

\* The position of the last call about a resource.
LastCall(what, mode) ==
  IF mode = "min"
  THEN CASE what = "fabric" -> 1 [] what = "asa" -> 2 [] what = "orchestrator" -> 3
         [] what = "scoring" -> 4 [] what = "aml" -> 5 [] what = "container" -> 7
         [] what = "graph" -> 9
  ELSE CASE what = "fabric" -> 2 [] what = "asa" -> 3 [] what = "orchestrator" -> 4
         [] what = "scoring" -> 5 [] what = "aml" -> 6 [] what = "container" -> 8
         [] what = "graph" -> 10

\* The resources a script is not answerable for.
Excused(r) == script[r].failed \cup script[r].touched \cup script[r].stuck

\* Of a script that has the last call about a resource behind it, and is answerable for the
\* resource: it is at scale.
Handled(r) ==
  LET run == script[r]
  IN run.mode \in Modes =>
       \A what \in Resources \ Excused(r) :
         run.at > LastCall(what, run.mode) => AtScale(what, run.mode)

\* Between two calls about one resource: what the first one told, or asked for, is still so.
FabricHalf(r) ==
  LET run == script[r]
  IN run.mode = "prod" /\ run.at = 2 /\ "fabric" \notin Excused(r) =>
       run.known = estate.fabric /\ estate.fabric \in {"Active", "Paused"}
ContainerHalf(r) ==
  LET run == script[r]
  IN "container" \notin Excused(r) =>
       /\ run.mode = "min" /\ run.at = 7 => (run.known = "autoscale" <=> estate.container.autoscale)
       /\ run.mode = "prod" /\ run.at = 8 => estate.container.autoscale
GraphHalf(r) ==
  LET run == script[r]
  IN "graph" \notin Excused(r) =>
       /\ run.mode = "min" /\ run.at = 9 => (run.known = "graph" <=> estate.graph # NoGraph)
       /\ run.mode = "prod" /\ run.at = 10 => estate.graph = NoGraph \/ estate.graph.autoscale
HalfHandled(r) == FabricHalf(r) /\ ContainerHalf(r) /\ GraphHalf(r)

ScaleInv == ScaleTypes /\ \A r \in Shells : Handled(r) /\ HalfHandled(r)

\* The throughputs the scripts and the deployment name, and the definitions in terms of them.
ProdRU == [autoscale |-> TRUE, ru |-> 4000]
LeastRU == [autoscale |-> TRUE, ru |-> 1000]
ManualRU == [autoscale |-> FALSE, ru |-> 400]

LEMMA ThroughputsAre ==
  /\ ProdRU \in Given /\ LeastRU \in Given /\ ManualRU \in Given
  /\ ProdRU.autoscale = TRUE /\ LeastRU.autoscale = TRUE /\ ManualRU.autoscale = FALSE
  /\ NoGraph \in Throughputs /\ NoGraph \notin Given /\ Given \subseteq Throughputs
BY DEF Throughput, NoGraph, Given, Throughputs, ProdRU, LeastRU, ManualRU

LEMMA EstatesAre ==
  Estates = {EstateAt("prod", "Resuming", ProdRU, rings) : rings \in {NoGraph, ProdRU}}
            \cup {EstateAt("min", "Pausing", ManualRU, rings) : rings \in {NoGraph, ManualRU}}
BY DEF Estates, Throughput, ProdRU, ManualRU

LEMMA WantedAre ==
  ASSUME NEW run, NEW call
  PROVE  Wanted(run, call) =
           IF run.mode = "prod" THEN ProdRU
           ELSE IF call = "throughput" /\ run.known = "autoscale" THEN LeastRU ELSE ManualRU
BY DEF Wanted, MinThroughput, Throughput, ProdRU, LeastRU, ManualRU

LEMMA MigratedAre ==
  ASSUME NEW old
  PROVE  Migrated(old) = IF old = NoGraph \/ old.autoscale THEN old ELSE LeastRU
<1>1. CASE old = NoGraph \/ old.autoscale
  BY <1>1 DEF Migrated
<1>2. CASE ~(old = NoGraph \/ old.autoscale)
  BY <1>2 DEF Migrated, Throughput, LeastRU
<1> QED
  BY <1>1, <1>2

LEMMA ThroughputsOfAre ==
  /\ ManualRU \in ThroughputsOf("min") /\ LeastRU \in ThroughputsOf("min")
  /\ ProdRU \in ThroughputsOf("prod")
<1>1. ManualRU \in ThroughputsOf("min")
  BY SMT DEF ThroughputsOf, Throughput, ManualRU
<1>2. LeastRU \in ThroughputsOf("min")
  BY SMT DEF ThroughputsOf, Throughput, LeastRU
<1>3. ProdRU \in ThroughputsOf("prod")
  BY SMT DEF ThroughputsOf, Throughput, ProdRU
<1> QED
  BY <1>1, <1>2, <1>3

LEMMA EstateAtIs ==
  ASSUME NEW mode \in {"min", "prod"}, NEW fabric \in Capacities, NEW container \in Given,
         NEW rings \in Throughputs
  PROVE  EstateAt(mode, fabric, container, rings) \in EstateSet
<1>1. /\ <<0, 0>> \in Sizes /\ <<0, 1>> \in Sizes /\ <<1, 10>> \in Sizes /\ <<2, 30>> \in Sizes
      /\ <<1, 4>> \in Sizes
  BY DEF Sizes
<1>2. /\ Size("orchestrator", mode) \in Sizes /\ Size("scoring", mode) \in Sizes
      /\ Size("aml", mode) \in Sizes
  BY <1>1 DEF Size
<1> QED
  BY <1>2 DEF EstateAt, EstateSet

LEMMA ScaleStart == ScaleInit => ScaleInv
<1> SUFFICES ASSUME ScaleInit PROVE ScaleInv
  OBVIOUS
<1>1. estate \in EstateSet
  <2>1. "Resuming" \in Capacities /\ "Pausing" \in Capacities
    BY DEF Capacities
  <2>2. ASSUME NEW rings \in Throughputs
        PROVE  /\ EstateAt("prod", "Resuming", ProdRU, rings) \in EstateSet
               /\ EstateAt("min", "Pausing", ManualRU, rings) \in EstateSet
    BY <2>1, EstateAtIs, ThroughputsAre
  <2>3. NoGraph \in Throughputs /\ ProdRU \in Throughputs /\ ManualRU \in Throughputs
    BY ThroughputsAre
  <2> QED
    BY <2>2, <2>3, EstatesAre DEF ScaleInit
<1>2. NoScript \in ScriptRuns
  BY DEF NoScript, ScriptRuns, ToldSet
<1>3. ScaleTypes
  BY <1>1, <1>2, ScaleAssumption DEF ScaleInit, ScaleTypes, NoScript
<1>4. \A r \in Shells : script[r].mode = "none" /\ script[r].at = 0
  BY DEF ScaleInit, NoScript
<1> QED
  BY <1>3, <1>4 DEF ScaleInv, Handled, HalfHandled, FabricHalf, ContainerHalf, GraphHalf, Modes

CallNames == {"suspend", "stop", "orchestrator", "scoring", "aml", "show", "throughput", "state",
              "resume", "start", "migrate", "capability", "graph migrate", "graph throughput"}

\* The position tells the call.
LEMMA CallAt ==
  /\ Calls("min")[1] = "suspend" /\ Calls("min")[2] = "stop" /\ Calls("min")[3] = "orchestrator"
  /\ Calls("min")[4] = "scoring" /\ Calls("min")[5] = "aml" /\ Calls("min")[6] = "show"
  /\ Calls("min")[7] = "throughput" /\ Calls("min")[8] = "capability"
  /\ Calls("min")[9] = "graph throughput"
  /\ Calls("prod")[1] = "state" /\ Calls("prod")[2] = "resume" /\ Calls("prod")[3] = "start"
  /\ Calls("prod")[4] = "orchestrator" /\ Calls("prod")[5] = "scoring" /\ Calls("prod")[6] = "aml"
  /\ Calls("prod")[7] = "migrate" /\ Calls("prod")[8] = "throughput"
  /\ Calls("prod")[9] = "graph migrate" /\ Calls("prod")[10] = "graph throughput"
BY DEF Calls

\* Of the calls of a script: the last one about a resource stands where LastCall says.
LEMMA CallsAndTargets ==
  ASSUME NEW mode \in Modes, NEW at \in 1 .. Len(Calls(mode))
  PROVE  /\ at \in 1 .. 10 /\ Calls(mode)[at] \in CallNames
         /\ TargetOf(Calls(mode)[at]) \in Resources
         /\ at <= LastCall(TargetOf(Calls(mode)[at]), mode)
         /\ \A w \in Resources : at = LastCall(w, mode) => w = TargetOf(Calls(mode)[at])
         /\ \A w \in Resources : LastCall(w, mode) \in 1 .. 10
<1>1. CASE mode = "min"
  <2>1. Len(Calls(mode)) = 9
    BY <1>1 DEF Calls
  <2>2. \A w \in Resources : LastCall(w, mode) \in 1 .. 10
    BY <1>1 DEF LastCall, Resources
  <2>3. at \in {1, 2, 3, 4, 5, 6, 7, 8, 9}
    BY <2>1
  <2>4. Calls(mode)[at] \in CallNames
    BY <1>1, <2>3, CallAt DEF CallNames
  <2>5. TargetOf(Calls(mode)[at]) =
          IF at = 1 THEN "fabric" ELSE IF at = 2 THEN "asa" ELSE IF at = 3 THEN "orchestrator"
          ELSE IF at = 4 THEN "scoring" ELSE IF at = 5 THEN "aml"
          ELSE IF at \in {6, 7} THEN "container" ELSE "graph"
    BY <1>1, <2>3, CallAt DEF TargetOf
  <2> QED
    BY <1>1, <2>2, <2>3, <2>4, <2>5 DEF LastCall, Resources
<1>2. CASE mode = "prod"
  <2>1. Len(Calls(mode)) = 10
    BY <1>2 DEF Calls
  <2>2. \A w \in Resources : LastCall(w, mode) \in 1 .. 10
    BY <1>2 DEF LastCall, Resources
  <2>3. at \in {1, 2, 3, 4, 5, 6, 7, 8, 9, 10}
    BY <2>1
  <2>4. Calls(mode)[at] \in CallNames
    BY <1>2, <2>3, CallAt DEF CallNames
  <2>5. TargetOf(Calls(mode)[at]) =
          IF at \in {1, 2} THEN "fabric" ELSE IF at = 3 THEN "asa"
          ELSE IF at = 4 THEN "orchestrator" ELSE IF at = 5 THEN "scoring"
          ELSE IF at = 6 THEN "aml" ELSE IF at \in {7, 8} THEN "container" ELSE "graph"
    BY <1>2, <2>3, CallAt DEF TargetOf
  <2> QED
    BY <1>2, <2>2, <2>3, <2>4, <2>5 DEF LastCall, Resources
<1> QED
  BY <1>1, <1>2 DEF Modes

\* The calls after which a script knows or has done the half about a resource.
LEMMA FirstCalls ==
  ASSUME NEW mode, NEW at, NEW call, call = Calls(mode)[at]
  PROVE  /\ mode = "prod" /\ at = 1 => call = "state" /\ TargetOf(call) = "fabric"
         /\ mode = "min" /\ at = 6 => call = "show" /\ TargetOf(call) = "container"
         /\ mode = "prod" /\ at = 7 => call = "migrate" /\ TargetOf(call) = "container"
         /\ mode = "min" /\ at = 8 => call = "capability" /\ TargetOf(call) = "graph"
         /\ mode = "prod" /\ at = 9 => call = "graph migrate" /\ TargetOf(call) = "graph"
<1>1. CASE mode = "min"
  BY <1>1, CallAt DEF TargetOf
<1>2. CASE mode = "prod"
  BY <1>2, CallAt DEF TargetOf
<1> QED
  BY <1>1, <1>2

LEMMA SizesAre ==
  \A what \in {"orchestrator", "scoring", "aml"}, mode \in Modes : Size(what, mode) \in Sizes
BY DEF Size, Sizes, Modes

\* What is asked for is a throughput, of the kind the script says.
LEMMA WantedIs ==
  ASSUME NEW run, NEW call
  PROVE  Wanted(run, call) \in Given
BY WantedAre, ThroughputsAre

\* A migration leaves autoscale throughput, where there is any.
LEMMA MigratedIs ==
  ASSUME NEW old \in Throughputs
  PROVE  /\ Migrated(old) \in Throughputs /\ (old \in Given => Migrated(old) \in Given)
         /\ Migrated(old) = NoGraph \/ Migrated(old).autoscale
BY MigratedAre, ThroughputsAre

\* An update gives what it says, or nothing.
LEMMA UpdatedIs ==
  ASSUME NEW old, NEW new
  PROVE  /\ Updated(old, new) \in {old, new}
         /\ old # NoGraph /\ old.autoscale = new.autoscale => Updated(old, new) = new
BY DEF Updated

\* A call changes nothing but its resource.
LEMMA AskedChanges ==
  ASSUME estate \in EstateSet, NEW run \in ScriptRuns, run.mode \in Modes, NEW call \in CallNames
  PROVE  /\ Asked(run, call) \in EstateSet
         /\ \A w \in Resources \ {TargetOf(call)} : Asked(run, call)[w] = estate[w]
<1> HIDE DEF ScriptRuns
<1>1. CASE call \in {"suspend", "resume"}
  BY <1>1 DEF EstateSet, Asked, TargetOf, Resources, Capacities
<1>2. CASE call \in {"stop", "start"}
  BY <1>2 DEF EstateSet, Asked, TargetOf, Resources
<1>3. CASE call \in {"orchestrator", "scoring", "aml"}
  <2>1. Size(call, run.mode) \in Sizes
    BY <1>3, SizesAre
  <2>2. Asked(run, call) = [estate EXCEPT ![call] = Size(call, run.mode)] /\ TargetOf(call) = call
    BY <1>3 DEF Asked, TargetOf
  <2> HIDE DEF Size
  <2> QED
    BY <1>3, <2>1, <2>2 DEF EstateSet, Resources
<1>4. CASE call \in {"show", "state", "capability"}
  BY <1>4 DEF EstateSet, Asked, TargetOf, Resources
<1>5. CASE call \in {"migrate", "throughput"}
  <2>1. PICK now \in Given : Asked(run, call) = [estate EXCEPT !.container = now]
    <3>1. estate.container \in Given /\ estate.container \in Throughputs
      BY ThroughputsAre DEF EstateSet
    <3>2. CASE call = "migrate"
      <4>1. Asked(run, call) = [estate EXCEPT !.container = Migrated(estate.container)]
        BY <3>2 DEF Asked
      <4> QED
        BY <3>1, <4>1, MigratedIs
    <3>3. CASE call = "throughput"
      <4>1. Asked(run, call) =
              [estate EXCEPT !.container = Updated(estate.container, Wanted(run, call))]
        BY <3>3 DEF Asked
      <4>2. Updated(estate.container, Wanted(run, call)) \in Given
        BY <3>1, WantedIs, UpdatedIs
      <4> QED
        BY <4>1, <4>2
    <3> QED
      BY <1>5, <3>2, <3>3
  <2> QED
    BY <1>5, <2>1 DEF EstateSet, TargetOf, Resources
<1>6. CASE call \in {"graph migrate", "graph throughput"}
  <2>1. PICK now \in Throughputs : Asked(run, call) = [estate EXCEPT !.graph = now]
    <3>1. estate.graph \in Throughputs
      BY DEF EstateSet
    <3>2. CASE call = "graph migrate"
      <4>1. Asked(run, call) = [estate EXCEPT !.graph = Migrated(estate.graph)]
        BY <3>2 DEF Asked
      <4> QED
        BY <3>1, <4>1, MigratedIs
    <3>3. CASE call = "graph throughput"
      <4>1. Asked(run, call) = [estate EXCEPT !.graph = Updated(estate.graph, Wanted(run, call))]
        BY <3>3 DEF Asked
      <4>2. Updated(estate.graph, Wanted(run, call)) \in Throughputs
        BY <3>1, WantedIs, UpdatedIs, ThroughputsAre
      <4> QED
        BY <4>1, <4>2
    <3> QED
      BY <1>6, <3>2, <3>3
  <2> QED
    BY <1>6, <2>1 DEF EstateSet, TargetOf, Resources
<1> QED
  BY <1>1, <1>2, <1>3, <1>4, <1>5, <1>6 DEF CallNames

LEMMA FabricSettlesKeeps == ScaleInv /\ FabricSettles => ScaleInv'
<1> SUFFICES ASSUME ScaleInv, FabricSettles PROVE ScaleInv'
  OBVIOUS
<1>1. /\ ScaleTypes /\ estate \in EstateSet /\ UNCHANGED <<script, outages>>
      /\ estate.fabric \in {"Pausing", "Resuming"}
      /\ estate' = [estate EXCEPT !.fabric =
                      IF estate.fabric = "Pausing" THEN "Paused" ELSE "Active"]
  BY DEF ScaleInv, ScaleTypes, FabricSettles
<1>2. /\ estate' \in EstateSet
      /\ \A w \in Resources \ {"fabric"} : estate'[w] = estate[w]
      /\ estate'.asa = estate.asa /\ estate'.container = estate.container
      /\ estate'.graph = estate.graph
      /\ estate.fabric = "Pausing" => estate'.fabric = "Paused"
      /\ estate.fabric = "Resuming" => estate'.fabric = "Active"
  BY <1>1 DEF EstateSet, Capacities, Resources
<1>3. ScaleTypes'
  BY <1>1, <1>2 DEF ScaleTypes
<1>4. ASSUME NEW w \in Resources, NEW mode \in Modes, AtScale(w, mode)
      PROVE  AtScale(w, mode)'
  <2>1. CASE w = "fabric"
    BY <1>1, <1>2, <1>4, <2>1 DEF AtScale
  <2>2. CASE w \in {"asa", "container", "graph"}
    BY <1>2, <1>4, <2>2 DEF AtScale
  <2>3. CASE w \in Resources \ {"fabric", "asa", "container", "graph"}
    BY <1>2, <1>4, <2>3 DEF AtScale
  <2> QED
    BY <2>1, <2>2, <2>3
<1>5. \A r \in Shells : Handled(r)'
  BY <1>1, <1>4 DEF ScaleInv, Handled, Excused
<1>6. \A r \in Shells : HalfHandled(r)'
  BY <1>1, <1>2 DEF ScaleInv, HalfHandled, FabricHalf, ContainerHalf, GraphHalf, Excused
<1> QED
  BY <1>3, <1>5, <1>6 DEF ScaleInv

\* Of a script that makes no step, nothing changes with the estate as it was.
LEMMA ScriptStays ==
  ASSUME NEW r \in Shells, UNCHANGED estate, script'[r] = script[r], Handled(r), HalfHandled(r)
  PROVE  Handled(r)' /\ HalfHandled(r)'
<1>1. \A w \in Resources, mode \in Modes : AtScale(w, mode) => AtScale(w, mode)'
  BY DEF AtScale
<1>2. Handled(r)'
  BY <1>1 DEF Handled, Excused
<1>3. HalfHandled(r)'
  BY DEF HalfHandled, FabricHalf, ContainerHalf, GraphHalf, Excused
<1> QED
  BY <1>2, <1>3

\* A resource that has not changed is as much at scale as it was.
LEMMA SameScale ==
  ASSUME estate \in EstateSet, estate' \in EstateSet, NEW w \in Resources, NEW mode \in Modes,
         estate'[w] = estate[w], AtScale(w, mode)
  PROVE  AtScale(w, mode)'
<1>1. CASE w = "fabric"
  BY <1>1 DEF AtScale, EstateSet
<1>2. CASE w = "asa"
  BY <1>2 DEF AtScale, EstateSet
<1>3. CASE w = "container"
  BY <1>3 DEF AtScale, EstateSet
<1>4. CASE w = "graph"
  BY <1>4 DEF AtScale, EstateSet
<1>5. CASE w \in Resources \ {"fabric", "asa", "container", "graph"}
  BY <1>5 DEF AtScale
<1> QED
  BY <1>1, <1>2, <1>3, <1>4, <1>5

\* A script is left as it was by a call of another about a resource, but for what it is told to
\* have been touched.
LEMMA OthersKeep ==
  ASSUME ScaleInv, NEW q \in Shells, NEW what \in Resources, estate' \in EstateSet,
         \A w \in Resources \ {what} : estate'[w] = estate[w],
         script'[q] = IF estate' # estate
                      THEN [script[q] EXCEPT !.touched = script[q].touched \cup {what}]
                      ELSE script[q]
  PROVE  /\ script'[q] \in ScriptRuns /\ script'[q].mode = script[q].mode
         /\ script'[q].at = script[q].at
         /\ Handled(q)' /\ HalfHandled(q)'
<1>1. script[q] \in ScriptRuns /\ estate \in EstateSet /\ Handled(q) /\ HalfHandled(q)
  BY DEF ScaleInv, ScaleTypes
<1>2. CASE estate' = estate
  <2>1. script'[q] = script[q]
    BY <1>2
  <2> QED
    BY <1>1, <1>2, <2>1, ScriptStays
<1>3. CASE estate' # estate
  <2>1. script'[q] = [script[q] EXCEPT !.touched = script[q].touched \cup {what}]
    BY <1>3
  <2>2. /\ script'[q] \in ScriptRuns /\ script'[q].mode = script[q].mode
        /\ script'[q].at = script[q].at
        /\ script'[q].known = script[q].known /\ script'[q].failed = script[q].failed
        /\ script'[q].stuck = script[q].stuck
        /\ script'[q].touched = script[q].touched \cup {what}
    BY <1>1, <2>1 DEF ScriptRuns
  <2>3. Excused(q)' = Excused(q) \cup {what}
    BY <2>2 DEF Excused
  <2>4. ASSUME NEW w \in Resources \ {what}, NEW mode \in Modes, AtScale(w, mode)
        PROVE  AtScale(w, mode)'
    BY <1>1, <2>4, SameScale
  <2>5. Handled(q)'
    BY <1>1, <2>2, <2>3, <2>4 DEF Handled
  <2>6. /\ "fabric" # what => estate'.fabric = estate.fabric
        /\ "container" # what => estate'.container = estate.container
        /\ "graph" # what => estate'.graph = estate.graph
    BY <1>1 DEF EstateSet, Resources
  <2>7. FabricHalf(q)'
    BY <1>1, <2>2, <2>3, <2>6 DEF HalfHandled, FabricHalf
  <2>8. ContainerHalf(q)'
    BY <1>1, <2>2, <2>3, <2>6 DEF HalfHandled, ContainerHalf
  <2>9. GraphHalf(q)'
    BY <1>1, <2>2, <2>3, <2>6 DEF HalfHandled, GraphHalf
  <2> QED
    BY <2>2, <2>5, <2>7, <2>8, <2>9 DEF HalfHandled
<1> QED
  BY <1>2, <1>3

\* A script that is answered about a resource for the last time leaves it at scale, if what it
\* was told before is still so and the resource does not reject the call.
LEMMA LastCallScales ==
  ASSUME ScaleInv, NEW r \in Shells, NEW mode \in Modes, script[r].mode = mode,
         NEW what \in Resources \ Excused(r), script[r].at = LastCall(what, mode),
         NEW call, call = Calls(mode)[script[r].at],
         estate' = IF ~Skipped(script[r], call) THEN Asked(script[r], call) ELSE estate
  PROVE  AtScale(what, mode)' \/ what \in Rejecting(script[r], call)
<1> DEFINE run == script[r]
<1>1. estate \in EstateSet /\ run \in ScriptRuns /\ HalfHandled(r)
  BY DEF ScaleInv, ScaleTypes
<1>2. CASE what = "fabric" /\ mode = "min"
  <2>1. call = "suspend"
    BY <1>2, CallAt DEF LastCall
  <2>2. estate' = IF estate.fabric = "Active" THEN [estate EXCEPT !.fabric = "Pausing"] ELSE estate
    BY <2>1 DEF Asked, Skipped
  <2>3. estate.fabric \in {"Pausing", "Resuming"} => what \in Rejecting(script[r], call)
    BY <1>2, <2>1 DEF Rejecting, TargetOf
  <2> QED
    BY <1>1, <1>2, <2>2, <2>3 DEF AtScale, EstateSet, Capacities
<1>3. CASE what = "fabric" /\ mode = "prod"
  <2>1. run.at = 2
    BY <1>3 DEF LastCall
  <2>2. call = "resume"
    BY <1>3, <2>1, CallAt
  <2>3. run.known = estate.fabric /\ estate.fabric \in {"Active", "Paused"}
    BY <1>1, <1>3, <2>1 DEF HalfHandled, FabricHalf
  <2>4. estate' = IF estate.fabric = "Paused" THEN [estate EXCEPT !.fabric = "Resuming"]
                  ELSE estate
    BY <2>2, <2>3 DEF Asked, Skipped
  <2> QED
    BY <1>1, <1>3, <2>3, <2>4 DEF AtScale, EstateSet, Capacities
<1>4. CASE what = "asa"
  <2>1. call = IF mode = "min" THEN "stop" ELSE "start"
    BY <1>4, CallAt DEF LastCall, Modes
  <2>2. estate' = [estate EXCEPT !.asa = IF mode = "min" THEN "Stopped" ELSE "Running"]
    BY <2>1 DEF Asked, Skipped
  <2> QED
    BY <1>1, <1>4, <2>2 DEF AtScale, EstateSet
<1>5. CASE what \in {"orchestrator", "scoring", "aml"}
  <2>1. call = what
    BY <1>5, CallAt DEF LastCall, Modes
  <2>2. estate' = [estate EXCEPT ![what] = Size(what, mode)]
    BY <1>5, <2>1 DEF Asked, Skipped
  <2>3. estate'[what] = Size(what, mode)
    BY <1>1, <1>5, <2>2 DEF EstateSet
  <2> QED
    BY <1>5, <2>3 DEF AtScale
<1>6. CASE what = "container"
  <2>1. run.at = IF mode = "min" THEN 7 ELSE 8
    BY <1>6 DEF LastCall
  <2>2. call = "throughput"
    BY <2>1, CallAt DEF Modes
  <2>3. estate' = [estate EXCEPT !.container = Updated(estate.container, Wanted(run, call))]
    BY <2>2 DEF Asked, Skipped
  <2>4. estate.container \in Given /\ estate.container # NoGraph
    BY <1>1, ThroughputsAre DEF EstateSet
  <2>5. estate'.container = Updated(estate.container, Wanted(run, call))
    BY <1>1, <2>3 DEF EstateSet
  <2>6. Wanted(run, call).autoscale = estate.container.autoscale
          => estate'.container = Wanted(run, call)
    BY <2>4, <2>5, UpdatedIs
  <2>7. CASE mode = "min"
    <3>1. run.known = "autoscale" <=> estate.container.autoscale
      BY <1>1, <1>6, <2>1, <2>7 DEF HalfHandled, ContainerHalf
    <3>2. Wanted(run, call) = IF run.known = "autoscale" THEN LeastRU ELSE ManualRU
      BY <2>2, <2>7, WantedAre
    <3>3. Wanted(run, call).autoscale = estate.container.autoscale
      BY <2>4, <3>1, <3>2, ThroughputsAre DEF Given
    <3> QED
      BY <1>6, <2>6, <2>7, <3>2, <3>3, ThroughputsOfAre DEF AtScale
  <2>8. CASE mode = "prod"
    <3>1. estate.container.autoscale = TRUE
      BY <1>1, <1>6, <2>1, <2>4, <2>8 DEF HalfHandled, ContainerHalf, Given
    <3>2. Wanted(run, call) = ProdRU
      BY <2>8, WantedAre
    <3> QED
      BY <1>6, <2>6, <2>8, <3>1, <3>2, ThroughputsOfAre, ThroughputsAre DEF AtScale
  <2> QED
    BY <2>7, <2>8 DEF Modes
<1>7. CASE what = "graph"
  <2>1. run.at = IF mode = "min" THEN 9 ELSE 10
    BY <1>7 DEF LastCall
  <2>2. call = "graph throughput"
    BY <2>1, CallAt DEF Modes
  <2>3. estate.graph \in Throughputs
    BY <1>1 DEF EstateSet
  <2>4. Asked(run, call) = [estate EXCEPT !.graph = Updated(estate.graph, Wanted(run, call))]
    BY <2>2 DEF Asked
  <2>5. ASSUME estate.graph # NoGraph, estate.graph.autoscale = Wanted(run, call).autoscale,
               ~Skipped(run, call)
        PROVE  estate'.graph = Wanted(run, call)
    <3>1. Updated(estate.graph, Wanted(run, call)) = Wanted(run, call)
      BY <2>5, UpdatedIs
    <3>2. estate' = [estate EXCEPT !.graph = Updated(estate.graph, Wanted(run, call))]
      BY <2>4, <2>5
    <3> QED
      BY <1>1, <3>1, <3>2 DEF EstateSet
  <2>6. estate.graph = NoGraph => estate'.graph = NoGraph
    <3>1. Updated(NoGraph, Wanted(run, call)) = NoGraph
      BY DEF Updated
    <3>2. estate' = estate \/ estate' = Asked(run, call)
      OBVIOUS
    <3> QED
      BY <1>1, <2>4, <3>1, <3>2 DEF EstateSet
  <2>7. CASE mode = "min"
    <3>1. run.known = "graph" <=> estate.graph # NoGraph
      BY <1>1, <1>7, <2>1, <2>7 DEF HalfHandled, GraphHalf
    <3>2. CASE estate.graph = NoGraph
      BY <1>7, <2>6, <2>7, <3>2, ThroughputsOfAre DEF AtScale
    <3>3. CASE estate.graph # NoGraph /\ estate.graph.autoscale
      BY <1>7, <2>2, <2>7, <3>3 DEF Rejecting, TargetOf
    <3>4. CASE estate.graph # NoGraph /\ ~estate.graph.autoscale
      <4>1. estate.graph.autoscale = FALSE
        BY <2>3, <3>4 DEF Throughputs
      <4>2. Wanted(run, call) = ManualRU
        BY <2>2, <2>7, WantedAre
      <4>3. ~Skipped(run, call)
        BY <2>2, <3>1, <3>4 DEF Skipped
      <4>4. estate'.graph = ManualRU
        BY <2>5, <3>4, <4>1, <4>2, <4>3, ThroughputsAre
      <4> QED
        BY <1>7, <2>7, <4>4, ThroughputsOfAre DEF AtScale
    <3> QED
      BY <3>2, <3>3, <3>4
  <2>8. CASE mode = "prod"
    <3>1. estate.graph = NoGraph \/ estate.graph.autoscale
      BY <1>1, <1>7, <2>1, <2>8 DEF HalfHandled, GraphHalf
    <3>2. CASE estate.graph = NoGraph
      BY <1>7, <2>6, <2>8, <3>2, ThroughputsOfAre DEF AtScale
    <3>3. CASE estate.graph # NoGraph
      <4>1. estate.graph.autoscale = TRUE
        BY <2>3, <3>1, <3>3 DEF Throughputs
      <4>2. Wanted(run, call) = ProdRU
        BY <2>8, WantedAre
      <4>3. ~Skipped(run, call)
        BY <2>2, <2>8 DEF Skipped
      <4>4. estate'.graph = ProdRU
        BY <2>5, <3>3, <4>1, <4>2, <4>3, ThroughputsAre
      <4> QED
        BY <1>7, <2>8, <4>4, ThroughputsOfAre DEF AtScale
    <3> QED
      BY <3>2, <3>3
  <2> QED
    BY <2>7, <2>8 DEF Modes
<1> QED
  BY <1>2, <1>3, <1>4, <1>5, <1>6, <1>7 DEF Resources, Modes

\* A shell's run and its next call, answered or not.
CallOf(r, mode, call, what, answered) ==
  /\ script[r].mode = mode /\ call = Calls(mode)[script[r].at] /\ what = TargetOf(call)
  /\ estate' = IF answered /\ ~Skipped(script[r], call) THEN Asked(script[r], call) ELSE estate
  /\ script'[r] = [script[r] EXCEPT !.at = @ + 1, !.known = Told(script[r], call, answered),
                     !.stuck = @ \cup Rejecting(script[r], call),
                     !.failed = IF answered THEN @ ELSE @ \cup {what}]

\* What a migration leaves.
LEMMA MigrateLeaves ==
  ASSUME estate \in EstateSet, NEW run
  PROVE  /\ Asked(run, "migrate").container.autoscale
         /\ Asked(run, "graph migrate").graph = NoGraph \/ Asked(run, "graph migrate").graph.autoscale
<1>1. /\ estate.container \in Given /\ estate.container \in Throughputs
      /\ estate.graph \in Throughputs
  BY ThroughputsAre DEF EstateSet
<1>2. /\ Asked(run, "migrate") = [estate EXCEPT !.container = Migrated(estate.container)]
      /\ Asked(run, "graph migrate") = [estate EXCEPT !.graph = Migrated(estate.graph)]
  BY DEF Asked
<1>3. /\ Asked(run, "migrate").container = Migrated(estate.container)
      /\ Asked(run, "graph migrate").graph = Migrated(estate.graph)
  BY <1>2 DEF EstateSet
<1>4. /\ Migrated(estate.container).autoscale
      /\ Migrated(estate.graph) = NoGraph \/ Migrated(estate.graph).autoscale
  BY <1>1, MigratedIs, ThroughputsAre
<1> QED
  BY <1>3, <1>4

\* The run that makes a call: what it knows of its resource is so, until another changes it.
LEMMA CallKeepsOwn ==
  ASSUME ScaleInv, NEW r \in Shells, Pending(r), NEW answered \in BOOLEAN, NEW mode \in Modes,
         NEW call \in CallNames, NEW what \in Resources, CallOf(r, mode, call, what, answered)
  PROVE  script'[r] \in ScriptRuns /\ script'[r].mode = mode /\ Handled(r)' /\ HalfHandled(r)'
<1> DEFINE run == script[r]
           at == run.at
           known == Told(run, call, answered)
           stuck == run.stuck \cup Rejecting(run, call)
           failed == IF answered THEN run.failed ELSE run.failed \cup {what}
<1> USE DEF CallOf
<1>1. run \in ScriptRuns /\ estate \in EstateSet /\ Handled(r) /\ HalfHandled(r)
  BY DEF ScaleInv, ScaleTypes
<1>2. /\ at \in 1 .. 10 /\ at <= LastCall(what, mode)
      /\ \A w \in Resources : at = LastCall(w, mode) => w = what
      /\ \A w \in Resources : LastCall(w, mode) \in 1 .. 10
  <2>1. at \in 1 .. Len(Calls(mode))
    BY DEF Pending
  <2> QED
    BY <2>1, CallsAndTargets
<1>3. estate' \in EstateSet /\ \A w \in Resources \ {what} : estate'[w] = estate[w]
  BY <1>1, AskedChanges
<1>4. known \in ToldSet /\ stuck \in SUBSET Resources /\ failed \in SUBSET Resources
  <2>1. known \in ToldSet
    BY <1>1 DEF Told, EstateSet, ScriptRuns, ToldSet
  <2>2. Rejecting(run, call) \subseteq Resources
    BY DEF Rejecting
  <2> QED
    BY <1>1, <2>1, <2>2 DEF ScriptRuns
<1>5. /\ script'[r] \in ScriptRuns /\ script'[r].mode = mode /\ script'[r].at = at + 1
      /\ script'[r].known = known /\ script'[r].stuck = stuck /\ script'[r].failed = failed
      /\ script'[r].touched = run.touched
  <2>1. script'[r] = [run EXCEPT !.at = at + 1, !.known = known, !.stuck = stuck,
                        !.failed = failed]
    OBVIOUS
  <2>2. at + 1 \in 0 .. 11
    BY <1>2
  <2>3. run \in ScriptRuns /\ run.mode = mode
    BY <1>1
  <2> HIDE DEF run, at, known, stuck, failed
  <2> QED
    BY <1>4, <2>1, <2>2, <2>3 DEF ScriptRuns
<1>6. /\ Excused(r)' = failed \cup run.touched \cup stuck
      /\ \A w : w \notin Excused(r)' => /\ w \notin Excused(r) /\ w \notin Rejecting(run, call)
                                        /\ w = what => answered
  BY <1>5 DEF Excused
<1>7. Handled(r)'
  <2> SUFFICES ASSUME NEW w \in Resources, w \notin Excused(r)', at + 1 > LastCall(w, mode)
               PROVE  AtScale(w, mode)'
    BY <1>5 DEF Handled
  <2>1. w \notin Excused(r) /\ w \notin Rejecting(run, call) /\ (w = what => answered)
    BY <1>6
  <2>2. CASE w # what
    <3>1. at > LastCall(w, mode)
      BY <1>2, <2>2
    <3>2. AtScale(w, mode)
      BY <1>1, <2>1, <3>1 DEF Handled
    <3>3. estate'[w] = estate[w]
      BY <1>3, <2>2
    <3> QED
      BY <1>1, <1>3, <3>2, <3>3, SameScale
  <2>3. CASE w = what
    <3>1. at = LastCall(w, mode)
      BY <1>2, <2>3
    <3>2. estate' = IF ~Skipped(script[r], call) THEN Asked(script[r], call) ELSE estate
      BY <2>1, <2>3
    <3> QED
      BY <2>1, <3>1, <3>2, LastCallScales
  <2> QED
    BY <2>2, <2>3
<1>11. /\ mode = "prod" /\ at = 1 => call = "state" /\ what = "fabric"
       /\ mode = "min" /\ at = 6 => call = "show" /\ what = "container"
       /\ mode = "prod" /\ at = 7 => call = "migrate" /\ what = "container"
       /\ mode = "min" /\ at = 8 => call = "capability" /\ what = "graph"
       /\ mode = "prod" /\ at = 9 => call = "graph migrate" /\ what = "graph"
  <2>1. call = Calls(mode)[at] /\ what = TargetOf(call)
    OBVIOUS
  <2> HIDE DEF at
  <2> QED
    BY <2>1, FirstCalls, Zenon
<1>8. FabricHalf(r)'
  <2> SUFFICES ASSUME mode = "prod", at + 1 = 2, "fabric" \notin Excused(r)'
               PROVE  known = estate'.fabric /\ estate'.fabric \in {"Active", "Paused"}
    BY <1>5 DEF FabricHalf
  <2>1. call = "state" /\ what = "fabric"
    <3>1. at = 1
      BY <1>2
    <3> QED
      BY <1>11, <3>1
  <2>2. answered /\ "fabric" \notin Rejecting(run, call)
    BY <1>6, <2>1
  <2>3. estate' = estate /\ known = estate.fabric
    BY <2>1, <2>2 DEF Asked, Told
  <2>4. estate.fabric \notin {"Pausing", "Resuming"}
    BY <2>1, <2>2 DEF Rejecting, TargetOf
  <2> QED
    BY <1>1, <2>3, <2>4 DEF EstateSet, Capacities
<1>9. ContainerHalf(r)'
  <2> SUFFICES ASSUME "container" \notin Excused(r)'
               PROVE  /\ mode = "min" /\ at + 1 = 7 =>
                           (known = "autoscale" <=> estate'.container.autoscale)
                      /\ mode = "prod" /\ at + 1 = 8 => estate'.container.autoscale
    BY <1>5 DEF ContainerHalf
  <2>1. ASSUME mode = "min", at + 1 = 7
        PROVE  known = "autoscale" <=> estate'.container.autoscale
    <3>1. call = "show" /\ what = "container"
      <4>1. at = 6
        BY <1>2, <2>1
      <4> QED
        BY <1>11, <2>1, <4>1
    <3>2. answered
      BY <1>6, <3>1
    <3>3. estate' = estate
      BY <3>1, <3>2 DEF Asked
    <3>4. known = IF estate.container.autoscale THEN "autoscale" ELSE "none"
      BY <3>1, <3>2 DEF Told
    <3> QED
      BY <3>3, <3>4
  <2>2. ASSUME mode = "prod", at + 1 = 8
        PROVE  estate'.container.autoscale
    <3>1. call = "migrate" /\ what = "container"
      <4>1. at = 7
        BY <1>2, <2>2
      <4> QED
        BY <1>11, <2>2, <4>1
    <3>2. answered
      BY <1>6, <3>1
    <3>3. estate' = Asked(run, "migrate")
      BY <3>1, <3>2 DEF Skipped
    <3> QED
      BY <1>1, <3>3, MigrateLeaves
  <2> QED
    BY <2>1, <2>2
<1>10. GraphHalf(r)'
  <2> SUFFICES ASSUME "graph" \notin Excused(r)'
               PROVE  /\ mode = "min" /\ at + 1 = 9 =>
                           (known = "graph" <=> estate'.graph # NoGraph)
                      /\ mode = "prod" /\ at + 1 = 10 =>
                           estate'.graph = NoGraph \/ estate'.graph.autoscale
    BY <1>5 DEF GraphHalf
  <2>1. ASSUME mode = "min", at + 1 = 9
        PROVE  known = "graph" <=> estate'.graph # NoGraph
    <3>1. call = "capability" /\ what = "graph"
      <4>1. at = 8
        BY <1>2, <2>1
      <4> QED
        BY <1>11, <2>1, <4>1
    <3>2. answered
      BY <1>6, <3>1
    <3>3. estate' = estate
      BY <3>1, <3>2 DEF Asked
    <3>4. known = IF estate.graph # NoGraph THEN "graph" ELSE "none"
      BY <3>1, <3>2 DEF Told
    <3> QED
      BY <3>3, <3>4
  <2>2. ASSUME mode = "prod", at + 1 = 10
        PROVE  estate'.graph = NoGraph \/ estate'.graph.autoscale
    <3>1. call = "graph migrate" /\ what = "graph"
      <4>1. at = 9
        BY <1>2, <2>2
      <4> QED
        BY <1>11, <2>2, <4>1
    <3>2. answered
      BY <1>6, <3>1
    <3>3. estate' = Asked(run, "graph migrate")
      BY <3>1, <3>2 DEF Skipped
    <3> QED
      BY <1>1, <3>3, MigrateLeaves
  <2> QED
    BY <2>1, <2>2
<1> QED
  BY <1>5, <1>7, <1>8, <1>9, <1>10 DEF HalfHandled

LEMMA CallCloudKeeps ==
  ASSUME ScaleInv, NEW r \in Shells, CallCloud(r)
  PROVE  ScaleInv'
<1>1. PICK answered \in BOOLEAN :
        LET run == script[r]
            call == Calls(run.mode)[run.at]
            what == TargetOf(call)
        IN /\ answered \/ (outages < MaxOutages /\ ~Skipped(run, call))
           /\ outages' = IF answered THEN outages ELSE outages + 1
           /\ estate' = IF answered /\ ~Skipped(run, call) THEN Asked(run, call) ELSE estate
           /\ script' = [q \in Shells |->
                IF q # r THEN IF estate' # estate THEN [script[q] EXCEPT !.touched = @ \cup {what}]
                              ELSE script[q]
                ELSE [run EXCEPT !.at = @ + 1, !.known = Told(run, call, answered),
                        !.stuck = @ \cup Rejecting(run, call),
                        !.failed = IF answered THEN @ ELSE @ \cup {what}]]
  BY DEF CallCloud
<1> DEFINE mode == script[r].mode
           call == Calls(mode)[script[r].at]
           what == TargetOf(call)
<1>2. /\ Pending(r) /\ mode \in Modes /\ script[r] \in ScriptRuns /\ estate \in EstateSet
      /\ script[r].at \in 1 .. Len(Calls(mode)) /\ ScaleTypes
  <2>1. script[r].at \in 1 .. Len(Calls(mode))
    BY DEF CallCloud, Pending
  <2>2. script[r].at # 0
    BY <2>1
  <2>3. script[r] \in ScriptRuns /\ (script[r].mode = "none" => script[r].at = 0)
    BY DEF ScaleInv, ScaleTypes
  <2> QED
    BY <2>1, <2>2, <2>3 DEF CallCloud, ScriptRuns, ScaleInv, ScaleTypes
<1>3. call \in CallNames /\ what \in Resources
  BY <1>2, CallsAndTargets
<1>4. /\ estate' = IF answered /\ ~Skipped(script[r], call) THEN Asked(script[r], call)
                   ELSE estate
      /\ script'[r] =
           [script[r] EXCEPT !.at = @ + 1, !.known = Told(script[r], call, answered),
              !.stuck = @ \cup Rejecting(script[r], call),
              !.failed = IF answered THEN @ ELSE @ \cup {what}]
      /\ \A q \in Shells \ {r} :
           script'[q] = IF estate' # estate
                        THEN [script[q] EXCEPT !.touched = script[q].touched \cup {what}]
                        ELSE script[q]
      /\ script' = [q \in Shells |-> script'[q]]
  BY <1>1
<1>5. estate' \in EstateSet /\ \A w \in Resources \ {what} : estate'[w] = estate[w]
  BY <1>2, <1>3, <1>4, AskedChanges
<1>6. outages' \in 0 .. MaxOutages
  <2>1. outages \in 0 .. MaxOutages
    BY <1>2 DEF ScaleTypes
  <2>2. /\ answered \/ outages < MaxOutages
        /\ outages' = IF answered THEN outages ELSE outages + 1
    BY <1>1
  <2> QED
    BY <2>1, <2>2, ScaleAssumption
<1>10. script[r].mode = mode /\ call = Calls(mode)[script[r].at] /\ what = TargetOf(call)
  OBVIOUS
<1>11. CallOf(r, mode, call, what, answered)
  BY <1>4, <1>10 DEF CallOf
<1> HIDE DEF call, what, mode
<1>7. script'[r] \in ScriptRuns /\ script'[r].mode = mode /\ Handled(r)' /\ HalfHandled(r)'
  BY <1>2, <1>3, <1>11, CallKeepsOwn, Zenon
<1>8. ASSUME NEW q \in Shells \ {r}
      PROVE  /\ script'[q] \in ScriptRuns /\ script'[q].mode = script[q].mode
             /\ script'[q].at = script[q].at /\ Handled(q)' /\ HalfHandled(q)'
  BY <1>3, <1>4, <1>5, OthersKeep
<1>9. ScaleTypes'
  <2>1. script' \in [Shells -> ScriptRuns]
    BY <1>4, <1>7, <1>8
  <2>2. \A q \in Shells : script'[q].mode = "none" => script'[q].at = 0
    BY <1>2, <1>7, <1>8 DEF ScaleTypes, Modes
  <2> QED
    BY <1>5, <1>6, <2>1, <2>2 DEF ScaleTypes
<1> QED
  BY <1>7, <1>8, <1>9 DEF ScaleInv

LEMMA StartScriptKeeps ==
  ASSUME ScaleInv, NEW r \in Shells, StartScript(r)
  PROVE  ScaleInv'
<1>1. PICK mode \in Modes, at \in {0, 1} :
        script' = [script EXCEPT ![r] = [NoScript EXCEPT !.mode = mode, !.at = at]]
  BY DEF StartScript
<1>2. ScaleTypes /\ UNCHANGED <<estate, outages>>
  BY DEF ScaleInv, StartScript
<1>3. script'[r] = [mode |-> mode, at |-> at, known |-> "none", failed |-> {}, touched |-> {},
                    stuck |-> {}]
      /\ \A q \in Shells \ {r} : script'[q] = script[q]
  BY <1>1, <1>2 DEF ScaleTypes, NoScript
<1>4. script'[r] \in ScriptRuns
  BY <1>3 DEF ScriptRuns, ToldSet
<1>5. ScaleTypes'
  BY <1>1, <1>2, <1>3, <1>4 DEF ScaleTypes, Modes
<1>6. Handled(r)' /\ HalfHandled(r)'
  <2>1. \A w \in Resources : LastCall(w, mode) \in 1 .. 10
    BY DEF LastCall, Resources, Modes
  <2>2. script'[r].mode = mode /\ script'[r].at = at
    BY <1>3
  <2>3. \A w \in Resources : ~(at > LastCall(w, mode))
    BY <2>1
  <2> QED
    BY <2>2, <2>3 DEF Handled, HalfHandled, FabricHalf, ContainerHalf, GraphHalf
<1>7. \A q \in Shells \ {r} : Handled(q)' /\ HalfHandled(q)'
  <2> SUFFICES ASSUME NEW q \in Shells \ {r} PROVE Handled(q)' /\ HalfHandled(q)'
    OBVIOUS
  <2>1. script'[q] = script[q] /\ Handled(q) /\ HalfHandled(q)
    BY <1>3 DEF ScaleInv
  <2> QED
    BY <1>2, <2>1, ScriptStays
<1> QED
  BY <1>5, <1>6, <1>7 DEF ScaleInv

LEMMA ScaleStep == ScaleInv /\ [ScaleNext]_scaleVars => ScaleInv'
<1>1. ASSUME ScaleInv, UNCHANGED scaleVars PROVE ScaleInv'
  BY <1>1, ScriptStays DEF ScaleInv, ScaleTypes, scaleVars
<1> QED
  BY <1>1, FabricSettlesKeeps, StartScriptKeeps, CallCloudKeeps DEF ScaleNext

LEMMA ScaledIsReported == ScaleInv => ScaledAsReported
<1> SUFFICES ASSUME ScaleInv, NEW r \in Shells, Reported(script[r]),
                    NEW what \in Resources \ Excused(r)
             PROVE  AtScale(what, script[r].mode)
  BY DEF ScaledAsReported, Excused
<1>1. script[r].mode \in Modes /\ script[r].at > Len(Calls(script[r].mode))
  BY DEF Reported
<1>2. script[r].at > LastCall(what, script[r].mode)
  <2>1. CASE script[r].mode = "min"
    <3>1. Len(Calls(script[r].mode)) = 9 /\ LastCall(what, script[r].mode) \in 1 .. 9
      BY <2>1 DEF Calls, LastCall, Resources
    <3> QED
      BY <1>1, <3>1 DEF ScaleInv, ScaleTypes, ScriptRuns
  <2>2. CASE script[r].mode = "prod"
    <3>1. Len(Calls(script[r].mode)) = 10 /\ LastCall(what, script[r].mode) \in 1 .. 10
      BY <2>2 DEF Calls, LastCall, Resources
    <3> QED
      BY <1>1, <3>1 DEF ScaleInv, ScaleTypes, ScriptRuns
  <2> QED
    BY <1>1, <2>1, <2>2 DEF Modes
<1> QED
  BY <1>1, <1>2 DEF ScaleInv, Handled
-----------------------------------------------------------------------------
(* Sums over finite sets, and least elements. *)
\* There is no endless descent: the induction the lemmas about sums need.
LEMMA LeastNumber ==
  ASSUME NEW T, T \subseteq Nat, T # {}
  PROVE  \E n \in T : \A m \in T : n <= m
<1>1. IsWellFoundedOn(OpToRel(<,Nat), Nat)
  BY NatLessThanWellFounded
<1>2. PICK n \in T : \A m \in T : ~ (<<m, n>> \in OpToRel(<,Nat))
  BY <1>1, WFMin, Zenon
<1>3. \A m \in T : ~(m < n)
  BY <1>2 DEF OpToRel
<1> QED
  BY <1>3

First(s) == CHOOSE x \in s : TRUE

\* The sums of a function over the sets of some collection, as the fold defines them.
Sums(f, C, g) ==
  g = [s \in C |-> IF s = {} THEN 0 ELSE f[First(s)] + g[s \ {First(s)}]]

LEMMA SumIs ==
  ASSUME NEW f, NEW S
  PROVE  SumFunctionOnSet(f, S) = (CHOOSE g : Sums(f, SUBSET S, g))[S]
BY DEF SumFunctionOnSet, FoldFunctionOnSet, MapThenFoldSet, Sums, First

Small(S, n) == {s \in SUBSET S : Cardinality(s) <= n}

LEMMA SmallerSet ==
  ASSUME NEW s, IsFiniteSet(s), s # {}
  PROVE  /\ First(s) \in s /\ IsFiniteSet(s \ {First(s)})
         /\ Cardinality(s) \in Nat \ {0} /\ Cardinality(s \ {First(s)}) = Cardinality(s) - 1
<1>1. First(s) \in s
  BY DEF First
<1>2. Cardinality(s) \in Nat /\ Cardinality(s) # 0
  BY FS_CardinalityType, FS_EmptySet
<1> QED
  BY <1>1, <1>2, FS_RemoveElement

LEMMA SumsOfSmall ==
  ASSUME NEW f, NEW S, IsFiniteSet(S)
  PROVE  \A n \in Nat : \E g : Sums(f, Small(S, n), g)
<1> DEFINE Bad == {n \in Nat : ~ \E g : Sums(f, Small(S, n), g)}
<1>1. \A s \in SUBSET S : IsFiniteSet(s)
  BY FS_Subset
<1> SUFFICES ASSUME Bad # {} PROVE FALSE
  OBVIOUS
<1>2. PICK n \in Bad : \A m \in Bad : n <= m
  BY LeastNumber
<1>3. n \in Nat /\ ~ \E g : Sums(f, Small(S, n), g)
  OBVIOUS
<1>4. CASE n = 0
  <2> DEFINE g == [s \in Small(S, 0) |-> 0]
  <2>1. ASSUME NEW s \in Small(S, 0) PROVE s = {}
    <3>1. s \in SUBSET S /\ Cardinality(s) <= 0 /\ IsFiniteSet(s)
      BY <1>1 DEF Small
    <3>2. s # {} => Cardinality(s) \in Nat \ {0}
      BY <3>1, SmallerSet
    <3> QED
      BY <3>1, <3>2
  <2>2. g = [s \in Small(S, 0) |-> IF s = {} THEN 0 ELSE f[First(s)] + g[s \ {First(s)}]]
    BY <2>1
  <2> HIDE DEF g
  <2>3. Sums(f, Small(S, 0), g)
    BY <2>2 DEF Sums
  <2> QED
    BY <1>3, <1>4, <2>3
<1>5. CASE n # 0
  <2>1. n - 1 \in Nat /\ n - 1 \notin Bad
    BY <1>2, <1>3, <1>5
  <2>2. PICK g : Sums(f, Small(S, n - 1), g)
    BY <2>1
  <2> DEFINE h == [s \in Small(S, n) |-> IF s = {} THEN 0 ELSE f[First(s)] + g[s \ {First(s)}]]
  <2>3. ASSUME NEW s \in Small(S, n), s # {}
        PROVE  s \ {First(s)} \in Small(S, n - 1) /\ s \ {First(s)} \in Small(S, n)
    <3>1. s \in SUBSET S /\ Cardinality(s) <= n /\ IsFiniteSet(s)
      BY <1>1 DEF Small
    <3>2. Cardinality(s) \in Nat /\ Cardinality(s \ {First(s)}) = Cardinality(s) - 1
      BY <2>3, <3>1, SmallerSet
    <3>3. Cardinality(s \ {First(s)}) <= n - 1 /\ Cardinality(s \ {First(s)}) <= n
      BY <1>3, <3>1, <3>2
    <3> QED
      BY <3>1, <3>3 DEF Small
  <2>4. \A s \in Small(S, n) : s # {} => h[s \ {First(s)}] = g[s \ {First(s)}]
    <3> SUFFICES ASSUME NEW s \in Small(S, n), s # {}
                 PROVE  h[s \ {First(s)}] = g[s \ {First(s)}]
      OBVIOUS
    <3> DEFINE r == s \ {First(s)}
    <3>1. r \in Small(S, n - 1) /\ r \in Small(S, n)
      BY <2>3
    <3> HIDE DEF r
    <3>2. g[r] = IF r = {} THEN 0 ELSE f[First(r)] + g[r \ {First(r)}]
      BY <2>2, <3>1 DEF Sums
    <3>3. h[r] = IF r = {} THEN 0 ELSE f[First(r)] + g[r \ {First(r)}]
      BY <3>1
    <3> QED
      BY <3>2, <3>3 DEF r
  <2>5. h = [s \in Small(S, n) |-> IF s = {} THEN 0 ELSE f[First(s)] + h[s \ {First(s)}]]
    <3> DEFINE k == [s \in Small(S, n) |-> IF s = {} THEN 0 ELSE f[First(s)] + h[s \ {First(s)}]]
    <3>1. ASSUME NEW s \in Small(S, n) PROVE h[s] = k[s]
      <4>1. h[s] = IF s = {} THEN 0 ELSE f[First(s)] + g[s \ {First(s)}]
        OBVIOUS
      <4>2. k[s] = IF s = {} THEN 0 ELSE f[First(s)] + h[s \ {First(s)}]
        OBVIOUS
      <4> HIDE DEF h, k
      <4> QED
        BY <2>4, <4>1, <4>2
    <3>2. DOMAIN h = Small(S, n) /\ DOMAIN k = Small(S, n)
      OBVIOUS
    <3>3. h = [s \in Small(S, n) |-> h[s]] /\ k = [s \in Small(S, n) |-> k[s]]
      OBVIOUS
    <3> HIDE DEF h, k
    <3>4. h = k
      BY <3>1, <3>3
    <3> QED
      BY <3>4 DEF k
  <2>6. Sums(f, Small(S, n), h)
    <3> HIDE DEF h
    <3> QED
      BY <2>5 DEF Sums
  <2> QED
    BY <1>3, <2>6
<1> QED
  BY <1>4, <1>5

LEMMA SumsOfAll ==
  ASSUME NEW f, NEW S, IsFiniteSet(S)
  PROVE  Sums(f, SUBSET S, CHOOSE g : Sums(f, SUBSET S, g))
<1>1. Cardinality(S) \in Nat /\ \A s \in SUBSET S : Cardinality(s) <= Cardinality(S)
  BY FS_CardinalityType, FS_Subset
<1>2. Small(S, Cardinality(S)) = SUBSET S
  BY <1>1 DEF Small
<1>3. \E g : Sums(f, SUBSET S, g)
  <2>1. \E g : Sums(f, Small(S, Cardinality(S)), g)
    BY <1>1, SumsOfSmall
  <2> QED
    BY <1>2, <2>1
<1> QED
  BY <1>3

\* Induction on the subsets of a finite set, with a set P of those for which something is so.
LEMMA SubsetInduction ==
  ASSUME NEW S, IsFiniteSet(S), NEW P,
         \A s \in SUBSET S : (\A a \in s : s \ {a} \in P) => s \in P
  PROVE  \A s \in SUBSET S : s \in P
<1> DEFINE Bad == {n \in Nat : \E s \in SUBSET S : Cardinality(s) = n /\ s \notin P}
<1>1. \A s \in SUBSET S : IsFiniteSet(s) /\ Cardinality(s) \in Nat
  BY FS_Subset, FS_CardinalityType
<1> SUFFICES ASSUME Bad # {} PROVE FALSE
  BY <1>1
<1>2. PICK n \in Bad : \A m \in Bad : n <= m
  BY LeastNumber
<1>3. PICK s \in SUBSET S : Cardinality(s) = n /\ s \notin P
  OBVIOUS
<1>4. PICK a \in s : s \ {a} \notin P
  BY <1>3
<1> DEFINE r == s \ {a}
<1>5. r \in SUBSET S /\ Cardinality(r) = n - 1 /\ n - 1 \in Nat
  <2>1. Cardinality(r) = Cardinality(s) - 1
    BY <1>1, FS_RemoveElement
  <2>2. r \in SUBSET S
    OBVIOUS
  <2>3. Cardinality(r) \in Nat
    BY <1>1, <2>2
  <2> QED
    BY <1>3, <2>1, <2>2, <2>3
<1>6. n - 1 \in Bad
  BY <1>4, <1>5
<1>7. n \in Nat
  OBVIOUS
<1> HIDE DEF Bad
<1>8. n <= n - 1
  BY <1>2, <1>6
<1> QED
  BY <1>7, <1>8

\* There is only one sum of each set.
Agreed(g, h, R, f, S) ==
  IsFiniteSet(S) /\ R \in SUBSET S /\ Sums(f, SUBSET S, g) /\ Sums(f, SUBSET R, h)

LEMMA SumsAgree ==
  ASSUME NEW g, NEW h, NEW R, NEW f, NEW S, Agreed(g, h, R, f, S)
  PROVE  g[R] = h[R]
<1> DEFINE P == {s \in SUBSET R : g[s] = h[s]}
<1>1. IsFiniteSet(R) /\ R \in SUBSET S
  BY FS_Subset DEF Agreed
<1>2. ASSUME NEW s \in SUBSET R, \A a \in s : s \ {a} \in P
      PROVE  s \in P
  <2>1. /\ g[s] = IF s = {} THEN 0 ELSE f[First(s)] + g[s \ {First(s)}]
        /\ h[s] = IF s = {} THEN 0 ELSE f[First(s)] + h[s \ {First(s)}]
    BY <1>1 DEF Sums, Agreed
  <2>2. s # {} => First(s) \in s
    BY DEF First
  <2> QED
    BY <1>2, <2>1, <2>2
<1> HIDE DEF P
<1>3. \A s \in SUBSET R : s \in P
  BY <1>1, <1>2, SubsetInduction
<1> QED
  BY <1>3 DEF P

\* What the fold computes.
LEMMA SumStep ==
  ASSUME NEW f, NEW S, IsFiniteSet(S)
  PROVE  SumFunctionOnSet(f, S) =
           IF S = {} THEN 0 ELSE f[First(S)] + SumFunctionOnSet(f, S \ {First(S)})
<1> DEFINE g == CHOOSE g : Sums(f, SUBSET S, g)
           R == S \ {First(S)}
           h == CHOOSE h : Sums(f, SUBSET R, h)
<1>1. Sums(f, SUBSET S, g)
  BY SumsOfAll
<1>2. IsFiniteSet(R) /\ R \in SUBSET S
  BY FS_Subset
<1>3. Sums(f, SUBSET R, h)
  BY <1>2, SumsOfAll
<1>4. SumFunctionOnSet(f, S) = g[S] /\ SumFunctionOnSet(f, R) = h[R]
  BY SumIs
<1> HIDE DEF g, h, R
<1>5. g[R] = h[R]
  <2>1. Agreed(g, h, R, f, S)
    BY <1>1, <1>2, <1>3 DEF Agreed
  <2> QED
    BY <2>1, SumsAgree, Zenon
<1>6. g[S] = IF S = {} THEN 0 ELSE f[First(S)] + g[S \ {First(S)}]
  BY <1>1 DEF Sums
<1> QED
  BY <1>4, <1>5, <1>6 DEF R

LEMMA SumNat ==
  ASSUME NEW f, NEW S, IsFiniteSet(S), \A x \in S : f[x] \in Nat
  PROVE  SumFunctionOnSet(f, S) \in Nat
<1> DEFINE P == {s \in SUBSET S : SumFunctionOnSet(f, s) \in Nat}
<1>1. ASSUME NEW s \in SUBSET S, \A a \in s : s \ {a} \in P
      PROVE  s \in P
  <2>1. IsFiniteSet(s)
    BY FS_Subset
  <2>2. SumFunctionOnSet(f, s) =
           IF s = {} THEN 0 ELSE f[First(s)] + SumFunctionOnSet(f, s \ {First(s)})
    BY <2>1, SumStep
  <2>3. s # {} => First(s) \in s
    BY DEF First
  <2> QED
    BY <1>1, <2>2, <2>3
<1> HIDE DEF P
<1>2. \A s \in SUBSET S : s \in P
  BY <1>1, SubsetInduction
<1> QED
  BY <1>2 DEF P

\* The sum without one element, whichever it is.
LEMMA SumMinus ==
  ASSUME NEW f, NEW S, IsFiniteSet(S), \A x \in S : f[x] \in Nat, NEW a \in S
  PROVE  SumFunctionOnSet(f, S) = f[a] + SumFunctionOnSet(f, S \ {a})
<1> DEFINE T(s) == SumFunctionOnSet(f, s)
           P == {s \in SUBSET S : \A x \in s : T(s) = f[x] + T(s \ {x})}
<1>1. \A s \in SUBSET S : IsFiniteSet(s) /\ T(s) \in Nat
  BY FS_Subset, SumNat
<1>2. ASSUME NEW s \in SUBSET S, \A y \in s : s \ {y} \in P, NEW x \in s
      PROVE  T(s) = f[x] + T(s \ {x})
  <2> DEFINE y == First(s)
  <2>1. y \in s /\ T(s) = f[y] + T(s \ {y})
    BY <1>1, SumStep DEF First
  <2> HIDE DEF y
  <2>2. CASE x = y
    BY <2>1, <2>2
  <2>3. CASE x # y
    <3>1. T(s \ {y}) = f[x] + T((s \ {y}) \ {x})
      BY <1>2, <2>1, <2>3
    <3>2. T(s \ {x}) = f[y] + T((s \ {x}) \ {y})
      BY <1>2, <2>1, <2>3
    <3>3. (s \ {y}) \ {x} = (s \ {x}) \ {y}
      OBVIOUS
    <3> DEFINE r == T((s \ {x}) \ {y})
    <3>4. r \in Nat /\ f[x] \in Nat /\ f[y] \in Nat
      BY <1>1, <2>1
    <3>5. T(s \ {y}) = f[x] + r /\ T(s \ {x}) = f[y] + r
      BY <3>1, <3>2, <3>3
    <3> HIDE DEF r, T
    <3> QED
      BY <2>1, <3>4, <3>5
  <2> QED
    BY <2>2, <2>3
<1>3. ASSUME NEW s \in SUBSET S, \A y \in s : s \ {y} \in P
      PROVE  s \in P
  BY <1>2, <1>3
<1> HIDE DEF P
<1>4. \A s \in SUBSET S : s \in P
  BY <1>3, SubsetInduction
<1> QED
  BY <1>4 DEF P

LEMMA SumSame ==
  ASSUME NEW f, NEW g, NEW S, IsFiniteSet(S), \A x \in S : f[x] = g[x]
  PROVE  SumFunctionOnSet(f, S) = SumFunctionOnSet(g, S)
<1> DEFINE P == {s \in SUBSET S : SumFunctionOnSet(f, s) = SumFunctionOnSet(g, s)}
<1>1. ASSUME NEW s \in SUBSET S, \A a \in s : s \ {a} \in P
      PROVE  s \in P
  <2>1. IsFiniteSet(s)
    BY FS_Subset
  <2>2. /\ SumFunctionOnSet(f, s) =
             IF s = {} THEN 0 ELSE f[First(s)] + SumFunctionOnSet(f, s \ {First(s)})
        /\ SumFunctionOnSet(g, s) =
             IF s = {} THEN 0 ELSE g[First(s)] + SumFunctionOnSet(g, s \ {First(s)})
    BY <2>1, SumStep
  <2>3. s # {} => First(s) \in s
    BY DEF First
  <2> QED
    BY <1>1, <2>2, <2>3
<1> HIDE DEF P
<1>2. \A s \in SUBSET S : s \in P
  BY <1>1, SubsetInduction
<1> QED
  BY <1>2 DEF P

\* What a sum becomes when one term does.
LEMMA SumChange ==
  ASSUME NEW f, NEW g, NEW S, IsFiniteSet(S), NEW a \in S,
         \A x \in S : f[x] \in Nat /\ g[x] \in Nat, \A x \in S \ {a} : g[x] = f[x]
  PROVE  /\ SumFunctionOnSet(f, S) \in Nat /\ SumFunctionOnSet(g, S) \in Nat
         /\ SumFunctionOnSet(g, S) + f[a] = SumFunctionOnSet(f, S) + g[a]
<1> DEFINE r == SumFunctionOnSet(f, S \ {a})
<1>1. IsFiniteSet(S \ {a})
  BY FS_Subset
<1>2. r = SumFunctionOnSet(g, S \ {a}) /\ r \in Nat
  BY <1>1, SumSame, SumNat
<1>3. SumFunctionOnSet(f, S) = f[a] + r
  BY SumMinus
<1>4. SumFunctionOnSet(g, S) = g[a] + SumFunctionOnSet(g, S \ {a})
  BY SumMinus
<1>5. SumFunctionOnSet(f, S) \in Nat /\ SumFunctionOnSet(g, S) \in Nat
  BY SumNat
<1> HIDE DEF r
<1> QED
  BY <1>2, <1>3, <1>4, <1>5

\* Without a term that is not zero, a sum is zero.
LEMMA SumOfZeros ==
  ASSUME NEW f, NEW S, IsFiniteSet(S), \A x \in S : f[x] = 0
  PROVE  SumFunctionOnSet(f, S) = 0
<1> DEFINE P == {s \in SUBSET S : SumFunctionOnSet(f, s) = 0}
<1>1. ASSUME NEW s \in SUBSET S, \A a \in s : s \ {a} \in P
      PROVE  s \in P
  <2>1. IsFiniteSet(s)
    BY FS_Subset
  <2>2. SumFunctionOnSet(f, s) =
           IF s = {} THEN 0 ELSE f[First(s)] + SumFunctionOnSet(f, s \ {First(s)})
    BY <2>1, SumStep
  <2>3. s # {} => First(s) \in s
    BY DEF First
  <2> QED
    BY <1>1, <2>2, <2>3
<1> HIDE DEF P
<1>2. \A s \in SUBSET S : s \in P
  BY <1>1, SubsetInduction
<1> QED
  BY <1>2 DEF P

\* One more of one count is one more in all.
LEMMA OneMore ==
  ASSUME NEW S, IsFiniteSet(S), NEW f \in [S -> Nat], NEW g \in [S -> Nat], NEW a \in S,
         g[a] = f[a] + 1, \A x \in S \ {a} : g[x] = f[x]
  PROVE  /\ SumFunction(f) \in Nat /\ SumFunction(g) = SumFunction(f) + 1
<1>1. \A x \in S : f[x] \in Nat /\ g[x] \in Nat
  OBVIOUS
<1>2. /\ SumFunctionOnSet(f, S) \in Nat /\ SumFunctionOnSet(g, S) \in Nat
      /\ SumFunctionOnSet(g, S) + f[a] = SumFunctionOnSet(f, S) + g[a]
  BY <1>1, SumChange
<1>3. SumFunction(f) = SumFunctionOnSet(f, S) /\ SumFunction(g) = SumFunctionOnSet(g, S)
  BY DEF SumFunction
<1> DEFINE m == SumFunctionOnSet(f, S)
           n == SumFunctionOnSet(g, S)
<1>4. m \in Nat /\ n \in Nat /\ n + f[a] = m + g[a] /\ f[a] \in Nat
  BY <1>1, <1>2
<1> HIDE DEF m, n
<1>5. n = m + 1
  BY <1>4
<1> QED
  BY <1>3, <1>4, <1>5 DEF m, n

LEMMA OneLeast ==
  ASSUME NEW S \in SUBSET Nat, NEW m \in S, \A y \in S : m <= y,
         NEW k \in S, \A y \in S : k <= y
  PROVE  k = m
OBVIOUS

LEMMA LeastIs ==
  ASSUME NEW S \in SUBSET Nat, NEW m \in S, \A y \in S : m <= y
  PROVE  Min(S) = m
<1>1. \E x \in S : \A y \in S : x <= y
  OBVIOUS
<1>2. Min(S) \in S /\ \A y \in S : Min(S) <= y
  BY <1>1, Zenon DEF Min
<1> QED
  BY <1>2, OneLeast, Zenon

LEMMA LeastOfTwo ==
  ASSUME NEW m \in Nat, NEW n \in Nat
  PROVE  Min({m, n}) = IF m <= n THEN m ELSE n
<1>1. CASE m <= n
  <2>1. m \in {m, n} /\ \A y \in {m, n} : m <= y
    BY <1>1
  <2>2. Min({m, n}) = m
    BY <2>1, LeastIs
  <2> QED
    BY <1>1, <2>2
<1>2. CASE ~(m <= n)
  <2>1. n \in {m, n} /\ \A y \in {m, n} : n <= y
    BY <1>2
  <2>2. Min({m, n}) = n
    BY <2>1, LeastIs
  <2> QED
    BY <1>2, <2>2
<1> QED
  BY <1>1, <1>2

\* The sum over the sets that a function splits a set into.
PartSums(f, key, s, K) == [k \in K |-> SumFunctionOnSet(f, {x \in s : key[x] = k})]

LEMMA SumOfParts ==
  ASSUME NEW S, IsFiniteSet(S), NEW f, \A x \in S : f[x] \in Nat,
         NEW K, IsFiniteSet(K), NEW key \in [S -> K]
  PROVE  SumFunctionOnSet(PartSums(f, key, S, K), K) = SumFunctionOnSet(f, S)
<1> DEFINE T(s) == SumFunctionOnSet(f, s)
           Q(s) == PartSums(f, key, s, K)
           P == {s \in SUBSET S : SumFunctionOnSet(Q(s), K) = T(s)}
<1>1. \A s \in SUBSET S : IsFiniteSet(s) /\ T(s) \in Nat
  BY FS_Subset, SumNat
<1>2. \A s \in SUBSET S, k \in K : Q(s)[k] = T({x \in s : key[x] = k}) /\ Q(s)[k] \in Nat
  BY <1>1 DEF PartSums
<1>3. ASSUME NEW s \in SUBSET S, \A a \in s : s \ {a} \in P
      PROVE  s \in P
  <2>1. CASE s = {}
    <3>1. T(s) = 0
      BY <1>1, <2>1, SumOfZeros
    <3>2. \A k \in K : Q(s)[k] = 0
      <4> SUFFICES ASSUME NEW k \in K PROVE Q(s)[k] = 0
        OBVIOUS
      <4>1. {x \in s : key[x] = k} = s
        BY <2>1
      <4> QED
        BY <1>2, <3>1, <4>1
    <3>3. SumFunctionOnSet(Q(s), K) = 0
      BY <3>2, SumOfZeros
    <3> QED
      BY <3>1, <3>3
  <2>2. CASE s # {}
    <3>1. PICK a \in s : TRUE
      BY <2>2
    <3> DEFINE r == s \ {a}
               ka == key[a]
    <3>2. r \in SUBSET S /\ ka \in K /\ SumFunctionOnSet(Q(r), K) = T(r)
      BY <1>3
    <3>3. T(s) = f[a] + T(r)
      BY <1>1, SumMinus
    <3>4. Q(s)[ka] = f[a] + Q(r)[ka]
      <4> DEFINE part == {x \in s : key[x] = ka}
      <4>1. part \in SUBSET S /\ a \in part /\ part \ {a} = {x \in r : key[x] = ka}
        OBVIOUS
      <4>2. IsFiniteSet(part) /\ \A x \in part : f[x] \in Nat
        BY <1>1, <4>1
      <4>3. T(part) = f[a] + T(part \ {a})
        BY <4>1, <4>2, SumMinus
      <4> QED
        BY <1>2, <3>2, <4>1, <4>3
    <3>5. \A k \in K \ {ka} : Q(s)[k] = Q(r)[k]
      <4> SUFFICES ASSUME NEW k \in K \ {ka} PROVE Q(s)[k] = Q(r)[k]
        OBVIOUS
      <4>1. \A x \in s : key[x] = k => x # a
        OBVIOUS
      <4>2. {x \in s : key[x] = k} = {x \in r : key[x] = k}
        BY <4>1
      <4>3. Q(s)[k] = T({x \in s : key[x] = k})
        BY <1>2
      <4>4. Q(r)[k] = T({x \in r : key[x] = k})
        BY <1>2, <3>2
      <4> HIDE DEF Q, T, r
      <4> QED
        BY <4>2, <4>3, <4>4
    <3> DEFINE g == Q(r)
               h == Q(s)
    <3>6. /\ \A k \in K : g[k] \in Nat /\ h[k] \in Nat
          /\ \A k \in K \ {ka} : h[k] = g[k]
          /\ h[ka] = f[a] + g[ka]
      BY <1>2, <3>2, <3>4, <3>5
    <3> HIDE DEF g, h
    <3>7. /\ SumFunctionOnSet(g, K) \in Nat /\ SumFunctionOnSet(h, K) \in Nat
          /\ SumFunctionOnSet(h, K) + g[ka] = SumFunctionOnSet(g, K) + h[ka]
      BY <3>2, <3>6, SumChange
    <3> DEFINE m == SumFunctionOnSet(g, K)
               n == SumFunctionOnSet(h, K)
    <3>8. m \in Nat /\ n \in Nat /\ g[ka] \in Nat /\ f[a] \in Nat /\ n + g[ka] = m + h[ka]
          /\ h[ka] = f[a] + g[ka]
      BY <3>2, <3>6, <3>7
    <3> HIDE DEF m, n, ka
    <3>9. n = f[a] + m
      BY <3>8
    <3>10. n = T(s)
      BY <3>2, <3>3, <3>9 DEF m, g
    <3> QED
      BY <3>10 DEF n, h
  <2> QED
    BY <2>1, <2>2
<1> HIDE DEF P
<1>4. \A s \in SUBSET S : s \in P
  BY <1>1, <1>3, SubsetInduction
<1> QED
  BY <1>4 DEF P

\* What is zero does not count.
LEMMA SumOfRest ==
  ASSUME NEW f, NEW S, IsFiniteSet(S), \A x \in S : f[x] \in Nat, NEW R \in SUBSET S,
         \A x \in S \ R : f[x] = 0
  PROVE  SumFunctionOnSet(f, S) = SumFunctionOnSet(f, R)
<1> DEFINE T(s) == SumFunctionOnSet(f, s)
           P == {s \in SUBSET S : T(s) = T(s \cap R)}
<1>1. \A s \in SUBSET S : IsFiniteSet(s) /\ T(s) \in Nat
  BY FS_Subset, SumNat
<1>2. ASSUME NEW s \in SUBSET S, \A a \in s : s \ {a} \in P
      PROVE  s \in P
  <2>1. CASE s \subseteq R
    <3>1. s \cap R = s
      BY <2>1
    <3> QED
      BY <3>1
  <2>2. CASE ~(s \subseteq R)
    <3>1. PICK a \in s : a \notin R
      BY <2>2
    <3>2. T(s) = f[a] + T(s \ {a})
      BY <1>1, SumMinus
    <3>3. f[a] = 0 /\ s \ {a} \in SUBSET S /\ (s \ {a}) \cap R = s \cap R
      BY <3>1
    <3>4. T(s \ {a}) \in Nat /\ T(s \ {a}) = T(s \cap R)
      BY <1>1, <1>2, <3>3
    <3> HIDE DEF T
    <3> QED
      BY <3>2, <3>3, <3>4
  <2> QED
    BY <2>1, <2>2
<1> HIDE DEF P
<1>3. \A s \in SUBSET S : s \in P
  BY <1>2, SubsetInduction
<1>4. S \cap R = R
  OBVIOUS
<1> QED
  BY <1>3, <1>4 DEF P
-----------------------------------------------------------------------------
(* What the demonstration decides. *)
Least(m, n) == IF m <= n THEN m ELSE n
FeatureSet ==
  [amount : Nat,
   card : [found : BOOLEAN, tier : Nat, chargebacks : Nat, blocked : BOOLEAN, segment : Segments],
   merchant : [found : BOOLEAN, fraudRate : Nat, highRisk : BOOLEAN],
   agg : [spent : Nat, count : Nat, declined : Nat]]

\* The signals of the stub, and what the jitter makes of them.
LEMMA StubBaseIs ==
  ASSUME NEW f \in FeatureSet
  PROVE  /\ StubBase(f) =
              500 + Points(f.card.blocked, 8500) + Points(f.merchant.highRisk, 3000)
              + Least(f.merchant.fraudRate, 5000)
              + Least(f.card.tier * 500, 2500) + Least(f.card.chargebacks * 500, 2500)
              + Points(f.amount > 1000, 1500) + Points(f.agg.declined > 2, 2000)
              + Points(f.agg.count > 20, 1000)
<1>1. f.merchant.fraudRate \in Nat /\ f.card.tier * 500 \in Nat /\ f.card.chargebacks * 500 \in Nat
  BY DEF FeatureSet
<1>2. /\ Min({f.merchant.fraudRate, 5000}) = Least(f.merchant.fraudRate, 5000)
      /\ Min({f.card.tier * 500, 2500}) = Least(f.card.tier * 500, 2500)
      /\ Min({f.card.chargebacks * 500, 2500}) = Least(f.card.chargebacks * 500, 2500)
  BY <1>1, LeastOfTwo DEF Least
<1> QED
  BY <1>2 DEF StubBase

\* A score lies between those of the ends of the jitter.
LEMMA StubScoreIs ==
  ASSUME NEW f, NEW base \in Nat, StubBase(f) = base, NEW j \in 0 .. MaxJitter
  PROVE  /\ StubScore(f, j) \in Nat
         /\ StubScore(f, j) <= (base + 500) \div 100
         /\ base <= 10000 => StubScore(f, j) >= base \div 100
         /\ base >= 10000 => StubScore(f, j) = 100
<1>1. j \in Nat /\ 0 <= j /\ j <= 500
  BY DEF MaxJitter
<1>2. Min({base + j, 10000}) = IF base + j <= 10000 THEN base + j ELSE 10000
  BY <1>1, LeastOfTwo
<1>3. StubScore(f, j) = (IF base + j <= 10000 THEN base + j ELSE 10000) \div 100
  BY <1>2 DEF StubScore
<1> QED
  BY <1>1, <1>3

\* The port scores as the service does without a model.
LEMMA PortScores == \A s, j : PortStubScore(s, j) = StubScore(s.f, j)
BY DEF PortStubScore, StubScore, StubBase

\* For a card and a merchant that are known, and what was spent and counted before as far as it
\* matters, the port and the service agree, whatever the amounts, rates and the jitter.
LEMMA PortIsExact ==
  ASSUME NEW s, s.f \in FeatureSet, s.f.card.found, s.f.merchant.found,
         s.f.amount <= 30 => s.spent = s.f.agg.spent /\ s.count = s.f.agg.count,
         NEW j
  PROVE  /\ Evaluate(s, j).decision = Answer(s.f, StubScore(s.f, j)).decision
         /\ Evaluate(s, j).exemption = Answer(s.f, StubScore(s.f, j)).exemption
<1> DEFINE score == StubScore(s.f, j)
           c == ContextOf(s.f, score)
<1>1. PortStubScore(s, j) = score
  BY PortScores
<1>2. /\ c.amount = s.f.amount /\ c.card = s.f.card /\ c.merchant = s.f.merchant
      /\ c.spent = s.f.agg.spent /\ c.count = s.f.agg.count /\ c.score = score /\ Remote(c)
  BY DEF ContextOf, Remote
<1> HIDE DEF c, score
<1>3. IsTra(c) <=> PortIsTra(s)
  BY <1>2 DEF IsTra, PortIsTra, TraTiers, PortTiers
<1>4. IsLowValue(c) <=> PortIsLowValue(s)
  BY <1>2 DEF IsLowValue, PortIsLowValue, LowValueAmount, LowValueCumulative, LowValueMaxCount
<1>5. IsCorporate(c) <=> s.f.card.segment = "corporate"
  BY <1>2 DEF IsCorporate
<1>6. IsTrustedBeneficiary(c) <=> s.f.card.segment = "trusted" /\ ~s.f.merchant.highRisk
  BY <1>2 DEF IsTrustedBeneficiary
<1>7. SelectExemption(c) = PortExemption(s, score)
  BY <1>2, <1>3, <1>4, <1>5, <1>6, Zenon DEF SelectExemption, PortExemption
<1>8. /\ Evaluate(s, j).decision = PortDecide(score, PortExemption(s, score), s.f.card)
      /\ Evaluate(s, j).exemption = PortExemption(s, score)
  BY <1>1 DEF Evaluate
<1>9. /\ Answer(s.f, score).decision = Decide(score, SelectExemption(c), s.f.card)
      /\ Answer(s.f, score).exemption = SelectExemption(c)
  BY DEF Answer, c
<1>10. Answer(s.f, score).decision = Evaluate(s, j).decision
  BY <1>7, <1>8, <1>9 DEF Decide, PortDecide
<1> QED
  BY <1>7, <1>8, <1>9, <1>10 DEF score

\* The decision on a transaction, from the band its score lies in.
LEMMA AnswerIs ==
  ASSUME NEW f, NEW score \in Nat
  PROVE  /\ f.card.blocked \/ score >= 85 => Answer(f, score).decision = "DECLINE"
         /\ ~f.card.blocked /\ score >= 50 /\ score < 85 => Answer(f, score).decision = "SCA"
         /\ ~f.card.blocked /\ score < 35 => Answer(f, score).decision = "APPROVE"
         /\ score >= 50 => Answer(f, score).exemption = "NONE"
<1> DEFINE x == SelectExemption(ContextOf(f, score))
<1>1. Answer(f, score).decision = Decide(score, x, f.card) /\ Answer(f, score).exemption = x
  BY DEF Answer
<1>2. score >= 50 => x = "NONE"
  BY DEF SelectExemption, ContextOf
<1> HIDE DEF x
<1> QED
  BY <1>1, <1>2 DEF Decide

LEMMA AnswersAre ==
  ASSUME NEW f, NEW d, \A j \in 0 .. MaxJitter : Answer(f, StubScore(f, j)).decision = d
  PROVE  {a.decision : a \in Answers("missing", f)} = {d}
<1>1. Jitters \subseteq 0 .. MaxJitter /\ 0 \in Jitters
  BY DEF Jitters, MaxJitter
<1>2. ScoresOf("missing", f) = {StubScore(f, j) : j \in Jitters}
  BY DEF ScoresOf, Loaded
<1>3. \A a \in Answers("missing", f) : a.decision = d
  BY <1>1, <1>2 DEF Answers
<1>4. Answer(f, StubScore(f, 0)) \in Answers("missing", f)
  BY <1>1, <1>2 DEF Answers
<1> QED
  BY <1>3, <1>4

KnownCards ==
  [found : BOOLEAN, tier : Nat, chargebacks : Nat, blocked : BOOLEAN, segment : Segments]
KnownMerchants == [found : BOOLEAN, fraudRate : Nat, highRisk : BOOLEAN]

LEMMA UnknownAre ==
  /\ UnknownCard \in KnownCards /\ UnknownCard.found = FALSE /\ UnknownCard.tier = 0
  /\ UnknownCard.chargebacks = 0 /\ UnknownCard.blocked = FALSE /\ UnknownCard.segment = "retail"
  /\ UnknownMerchant \in KnownMerchants /\ UnknownMerchant.found = FALSE
  /\ UnknownMerchant.fraudRate = 0 /\ UnknownMerchant.highRisk = FALSE
<1> DEFINE c == CardOf(0, 0, FALSE, "retail")
           m == MerchantOf(0, FALSE)
<1>1. /\ c \in KnownCards /\ c.tier = 0 /\ c.chargebacks = 0 /\ c.blocked = FALSE
      /\ c.segment = "retail"
  BY DEF CardOf, KnownCards, Segments
<1>2. m \in KnownMerchants /\ m.fraudRate = 0 /\ m.highRisk = FALSE
  BY DEF MerchantOf, KnownMerchants
<1>3. UnknownCard = [c EXCEPT !.found = FALSE] /\ UnknownMerchant = [m EXCEPT !.found = FALSE]
  BY Zenon DEF UnknownCard, UnknownMerchant
<1> HIDE DEF c, m
<1> QED
  BY <1>1, <1>2, <1>3 DEF KnownCards, KnownMerchants

LEMMA SeededAggs ==
  /\ SeededAgg(HotCard) = AggOf(1180, 5, 3)
  /\ SeededAgg(BlockedCard) = AggOf(520, 2, 1)
  /\ SeededAgg(CorporateCard) = NoAgg
  /\ SeededAgg(UnknownCard) = NoAgg
<1>1. HotCard.chargebacks = 6 /\ BlockedCard.chargebacks = 4 /\ HotCard.tier = 5
      /\ BlockedCard.tier = 5 /\ RingCard.tier = 2 /\ CorporateCard.tier = 0
      /\ UnknownCard.tier = 0
  BY UnknownAre DEF HotCard, BlockedCard, RingCard, CorporateCard, CardOf
<1>2. /\ HotCard # BlockedCard /\ HotCard # RingCard /\ BlockedCard # RingCard
      /\ CorporateCard \notin {HotCard, BlockedCard, RingCard}
      /\ UnknownCard \notin {HotCard, BlockedCard, RingCard}
  BY <1>1
<1> QED
  BY <1>2 DEF SeededAgg

LEMMA StubDecides ==
  ASSUME NEW f, NEW base \in Nat, StubBase(f) = base, NEW j \in 0 .. MaxJitter
  PROVE  LET d == Answer(f, StubScore(f, j)).decision
         IN /\ f.card.blocked \/ base >= 8500 => d = "DECLINE"
            /\ ~f.card.blocked /\ base \in 5000 .. 7999 => d = "SCA"
            /\ ~f.card.blocked /\ base < 3000 => d = "APPROVE"
<1> DEFINE score == StubScore(f, j)
<1>1. /\ score \in Nat /\ score <= (base + 500) \div 100
      /\ base <= 10000 => score >= base \div 100
      /\ base >= 10000 => score = 100
  BY StubScoreIs
<1> HIDE DEF score
<1>2. /\ base >= 8500 => score >= 85
      /\ base \in 5000 .. 7999 => score >= 50 /\ score < 85
      /\ base < 3000 => score < 35
  BY <1>1
<1>3. /\ f.card.blocked \/ score >= 85 => Answer(f, score).decision = "DECLINE"
      /\ ~f.card.blocked /\ score >= 50 /\ score < 85 => Answer(f, score).decision = "SCA"
      /\ ~f.card.blocked /\ score < 35 => Answer(f, score).decision = "APPROVE"
  BY <1>1, AnswerIs
<1> QED
  BY <1>2, <1>3 DEF score

LEMMA StubOfUnknown ==
  ASSUME NEW m \in KnownMerchants
  PROVE  /\ ~Features(50, UnknownCard, m, NoAgg).card.blocked
         /\ StubBase(Features(50, UnknownCard, m, NoAgg)) =
              500 + Points(m.highRisk, 3000) + Least(m.fraudRate, 5000)
<1> DEFINE f == Features(50, UnknownCard, m, NoAgg)
<1>1. f \in FeatureSet
  BY UnknownAre DEF FeatureSet, Features, KnownMerchants, NoAgg, AggOf, KnownCards, Segments
<1>2. /\ f.amount = 50 /\ f.card.tier = 0 /\ f.card.chargebacks = 0 /\ f.card.blocked = FALSE
      /\ f.merchant = m /\ f.agg.count = 0 /\ f.agg.declined = 0
  BY UnknownAre DEF Features, NoAgg, AggOf
<1>3. m.fraudRate \in Nat /\ m.highRisk \in BOOLEAN
  BY DEF KnownMerchants
<1> HIDE DEF f
<1>4. ~f.card.blocked /\ StubBase(f) = 500 + Points(m.highRisk, 3000) + Least(m.fraudRate, 5000)
  BY <1>1, <1>2, <1>3, StubBaseIs DEF Points, Least
<1> QED
  BY <1>4 DEF f

\* What the comments of the seed promise, for every jitter.
LEMMA SeedsDecideAsTold == SeedsAsTold
<1> DEFINE F(amount, card, merchant) == Features(amount, card, merchant, SeededAgg(card))
<1>1. ASSUME NEW m \in {UnknownMerchant, CleanMerchant, FraudMerchant}
      PROVE  Decided(50, BlockedCard, m) = {"DECLINE"}
  <2>1. F(50, BlockedCard, m).card.blocked
    BY DEF Features, BlockedCard, CardOf
  <2>2. \A s : Answer(F(50, BlockedCard, m), s).decision = "DECLINE"
    BY <2>1 DEF Answer, Decide
  <2> QED
    BY <2>2, AnswersAre DEF Decided
<1>2. Decided(50, HotCard, UnknownMerchant) = {"SCA"}
  <2> DEFINE f == F(50, HotCard, UnknownMerchant)
  <2>1. f \in FeatureSet /\ ~f.card.blocked /\ StubBase(f) = 7500
    <3>1. f = Features(50, HotCard, UnknownMerchant, AggOf(1180, 5, 3))
      BY SeededAggs
    <3> HIDE DEF f
    <3>2. f \in FeatureSet
      BY <3>1, UnknownAre
      DEF FeatureSet, Features, HotCard, CardOf, AggOf, KnownMerchants, Segments
    <3>3. /\ f.amount = 50 /\ f.card.tier = 5 /\ f.card.chargebacks = 6 /\ f.card.blocked = FALSE
          /\ f.merchant.fraudRate = 0 /\ f.merchant.highRisk = FALSE
          /\ f.agg.count = 5 /\ f.agg.declined = 3
      BY <3>1, UnknownAre DEF Features, HotCard, CardOf, AggOf
    <3> QED
      BY <3>2, <3>3, StubBaseIs DEF Points, Least
  <2> HIDE DEF f
  <2>2. \A j \in 0 .. MaxJitter : Answer(f, StubScore(f, j)).decision = "SCA"
    BY <2>1, StubDecides
  <2>3. {a.decision : a \in Answers("missing", f)} = {"SCA"}
    BY <2>2, AnswersAre
  <2> QED
    BY <2>3 DEF f, Decided
<1>3. Decided(1800, CorporateCard, UnknownMerchant) = {"APPROVE"}
  <2> DEFINE f == F(1800, CorporateCard, UnknownMerchant)
  <2>1. f \in FeatureSet /\ ~f.card.blocked /\ StubBase(f) = 2000
    <3>1. f = Features(1800, CorporateCard, UnknownMerchant, NoAgg)
      BY SeededAggs
    <3> HIDE DEF f
    <3>2. f \in FeatureSet
      BY <3>1, UnknownAre
      DEF FeatureSet, Features, CorporateCard, CardOf, NoAgg, AggOf, KnownMerchants, Segments
    <3>3. /\ f.amount = 1800 /\ f.card.tier = 0 /\ f.card.chargebacks = 0 /\ f.card.blocked = FALSE
          /\ f.merchant.fraudRate = 0 /\ f.merchant.highRisk = FALSE
          /\ f.agg.count = 0 /\ f.agg.declined = 0
      BY <3>1, UnknownAre DEF Features, CorporateCard, CardOf, NoAgg, AggOf
    <3> QED
      BY <3>2, <3>3, StubBaseIs DEF Points, Least
  <2> HIDE DEF f
  <2>2. \A j \in 0 .. MaxJitter : Answer(f, StubScore(f, j)).decision = "APPROVE"
    BY <2>1, StubDecides
  <2>3. {a.decision : a \in Answers("missing", f)} = {"APPROVE"}
    BY <2>2, AnswersAre
  <2> QED
    BY <2>3 DEF f, Decided
<1>5. Decided(50, UnknownCard, FraudMerchant) = {"DECLINE"}
  <2> DEFINE f == Features(50, UnknownCard, FraudMerchant, NoAgg)
  <2>1. ~f.card.blocked /\ StubBase(f) = 8500
    <3>1. /\ FraudMerchant \in KnownMerchants /\ FraudMerchant.highRisk = TRUE
          /\ FraudMerchant.fraudRate = 5500
      BY DEF FraudMerchant, MerchantOf, KnownMerchants
    <3>2. /\ ~f.card.blocked
          /\ StubBase(f) = 500 + Points(FraudMerchant.highRisk, 3000) + Least(FraudMerchant.fraudRate, 5000)
      BY StubOfUnknown, <3>1
    <3> HIDE DEF f
    <3> QED
      BY <3>1, <3>2 DEF Points, Least
  <2>2. f = F(50, UnknownCard, FraudMerchant)
    BY SeededAggs
  <2> HIDE DEF f
  <2>3. \A j \in 0 .. MaxJitter : Answer(f, StubScore(f, j)).decision = "DECLINE"
    BY <2>1, StubDecides
  <2>4. {a.decision : a \in Answers("missing", f)} = {"DECLINE"}
    BY <2>3, AnswersAre
  <2> QED
    BY <2>2, <2>4 DEF F, Decided
<1>6. Decided(50, UnknownCard, RiskyMerchant) = {"SCA"}
  <2> DEFINE f == Features(50, UnknownCard, RiskyMerchant, NoAgg)
  <2>1. ~f.card.blocked /\ StubBase(f) = 5500
    <3>1. /\ RiskyMerchant \in KnownMerchants /\ RiskyMerchant.highRisk = TRUE
          /\ RiskyMerchant.fraudRate = 2000
      BY DEF RiskyMerchant, MerchantOf, KnownMerchants
    <3>2. /\ ~f.card.blocked
          /\ StubBase(f) = 500 + Points(RiskyMerchant.highRisk, 3000) + Least(RiskyMerchant.fraudRate, 5000)
      BY StubOfUnknown, <3>1
    <3> HIDE DEF f
    <3> QED
      BY <3>1, <3>2 DEF Points, Least
  <2>2. f = F(50, UnknownCard, RiskyMerchant)
    BY SeededAggs
  <2> HIDE DEF f
  <2>3. \A j \in 0 .. MaxJitter : Answer(f, StubScore(f, j)).decision = "SCA"
    BY <2>1, StubDecides
  <2>4. {a.decision : a \in Answers("missing", f)} = {"SCA"}
    BY <2>3, AnswersAre
  <2> QED
    BY <2>2, <2>4 DEF F, Decided
<1>7. ASSUME NEW a \in Answers("missing", Features(50, UnknownCard, CleanMerchant, NoAgg))
      PROVE  a.decision = "APPROVE" /\ a.exemption = "TRA"
  <2> DEFINE f == Features(50, UnknownCard, CleanMerchant, NoAgg)
  <2>1. ~f.card.blocked /\ StubBase(f) = 505
    <3>1. /\ CleanMerchant \in KnownMerchants /\ CleanMerchant.highRisk = FALSE
          /\ CleanMerchant.fraudRate = 5
      BY DEF CleanMerchant, MerchantOf, KnownMerchants
    <3>2. /\ ~f.card.blocked
          /\ StubBase(f) = 500 + Points(CleanMerchant.highRisk, 3000) + Least(CleanMerchant.fraudRate, 5000)
      BY StubOfUnknown, <3>1
    <3> HIDE DEF f
    <3> QED
      BY <3>1, <3>2 DEF Points, Least
  <2>2. /\ CleanMerchant.found = TRUE /\ CleanMerchant.fraudRate = 5
        /\ CleanMerchant.highRisk = FALSE
    BY DEF CleanMerchant, MerchantOf
  <2>3. f.amount = 50 /\ f.card.found = FALSE /\ f.merchant = CleanMerchant
    BY UnknownAre DEF Features
  <2> HIDE DEF f
  <2>4. PICK j \in Jitters : a = Answer(f, StubScore(f, j))
    BY DEF f, Answers, ScoresOf, Loaded
  <2>5. j \in 0 .. MaxJitter
    BY DEF Jitters, MaxJitter
  <2>6. a.decision = "APPROVE" /\ StubScore(f, j) \in Nat /\ StubScore(f, j) < 50
    BY <2>1, <2>4, <2>5, StubDecides, StubScoreIs
  <2> DEFINE c == ContextOf(f, StubScore(f, j))
  <2>7. /\ Remote(c) /\ c.amount = 50 /\ c.merchant = f.merchant /\ c.card = f.card
        /\ c.score = StubScore(f, j)
    BY <2>3 DEF ContextOf, Remote
  <2>8. a.exemption = SelectExemption(c)
    BY <2>4 DEF Answer
  <2> HIDE DEF c
  <2>9. IsTra(c) /\ ~IsCorporate(c) /\ ~IsTrustedBeneficiary(c)
    BY <2>2, <2>3, <2>7 DEF IsTra, IsCorporate, IsTrustedBeneficiary, TraTiers
  <2> QED
    BY <2>6, <2>7, <2>8, <2>9 DEF SelectExemption
<1>8. \A m \in {UnknownMerchant, CleanMerchant, FraudMerchant} :
        Decided(50, BlockedCard, m) = {"DECLINE"}
  BY <1>1, Zenon
<1>9. \A a \in Answers("missing", Features(50, UnknownCard, CleanMerchant, NoAgg)) :
        a.decision = "APPROVE" /\ a.exemption = "TRA"
  BY <1>7, Zenon
<1> QED
  BY <1>2, <1>3, <1>5, <1>6, <1>8, <1>9 DEF SeedsAsTold

\* The decisions of the scenarios are those their texts promise, whatever the jitter.
LEMMA ScenariosDecide ==
  ASSUME NEW i \in DOMAIN Scenarios, NEW j \in 0 .. MaxJitter
  PROVE  LET s == Scenarios[i]
         IN /\ s.f \in FeatureSet /\ s.f.card.found /\ s.f.merchant.found
            /\ s.f.amount <= 30 => s.spent = s.f.agg.spent /\ s.count = s.f.agg.count
            /\ Evaluate(s, j).decision = s.promised /\ Evaluate(s, j).exemption = s.exemption
<1> DEFINE s == Scenarios[i]
           score == StubScore(s.f, j)
           Good == /\ s.f \in FeatureSet /\ s.f.card.found /\ s.f.merchant.found
                   /\ s.f.amount <= 30 => s.spent = s.f.agg.spent /\ s.count = s.f.agg.count
           Kept == PortExemption(s, score) = s.exemption
                   /\ PortDecide(score, s.exemption, s.f.card) = s.promised
<1>1. i \in 1 .. 6
  BY DEF Scenarios
<1>2. ASSUME i = 1 PROVE Good /\ Kept
  <2>0. s = Scenario(25, CardOf(0, 0, FALSE, "retail"), MerchantOf(20, FALSE), NoAgg, "APPROVE", "LOW_VALUE")
    BY <1>2 DEF Scenarios
  <2> HIDE DEF s
  <2>1. /\ s.f \in FeatureSet /\ s.f.card.found = TRUE /\ s.f.merchant.found = TRUE
        /\ s.spent = 0 /\ s.count = 0 /\ s.promised = "APPROVE" /\ s.exemption = "LOW_VALUE"
    BY <2>0 DEF Scenario, Features, CardOf, MerchantOf, NoAgg, AggOf, FeatureSet, Segments
  <2>2. /\ s.f.amount = 25 /\ s.f.card.tier = 0 /\ s.f.card.chargebacks = 0
        /\ s.f.card.blocked = FALSE /\ s.f.card.segment = "retail"
        /\ s.f.merchant.fraudRate = 20 /\ s.f.merchant.highRisk = FALSE
        /\ s.f.agg.spent = 0 /\ s.f.agg.count = 0 /\ s.f.agg.declined = 0
    BY <2>0 DEF Scenario, Features, CardOf, MerchantOf, NoAgg, AggOf
  <2>3. StubBase(s.f) = 520
    BY <2>1, <2>2, StubBaseIs DEF Points, Least
  <2>4. score \in Nat /\ score >= 5 /\ score <= 10
    BY <2>3, StubScoreIs
  <2> HIDE DEF score
  <2>5. PortExemption(s, score) = "LOW_VALUE"
    BY <2>1, <2>2, <2>4 DEF PortExemption, PortIsTra, PortTiers, PortIsLowValue
  <2>6. PortDecide(score, "LOW_VALUE", s.f.card) = "APPROVE"
    BY <2>2, <2>4 DEF PortDecide
  <2> QED
    BY <2>1, <2>2, <2>5, <2>6
<1>3. ASSUME i = 2 PROVE Good /\ Kept
  <2>0. s = Scenario(180, CardOf(1, 0, FALSE, "retail"), MerchantOf(5, FALSE), NoAgg, "APPROVE", "TRA")
    BY <1>3 DEF Scenarios
  <2> HIDE DEF s
  <2>1. /\ s.f \in FeatureSet /\ s.f.card.found = TRUE /\ s.f.merchant.found = TRUE
        /\ s.spent = 0 /\ s.count = 0 /\ s.promised = "APPROVE" /\ s.exemption = "TRA"
    BY <2>0 DEF Scenario, Features, CardOf, MerchantOf, NoAgg, AggOf, FeatureSet, Segments
  <2>2. /\ s.f.amount = 180 /\ s.f.card.tier = 1 /\ s.f.card.chargebacks = 0
        /\ s.f.card.blocked = FALSE /\ s.f.card.segment = "retail"
        /\ s.f.merchant.fraudRate = 5 /\ s.f.merchant.highRisk = FALSE
        /\ s.f.agg.spent = 0 /\ s.f.agg.count = 0 /\ s.f.agg.declined = 0
    BY <2>0 DEF Scenario, Features, CardOf, MerchantOf, NoAgg, AggOf
  <2>3. StubBase(s.f) = 1005
    BY <2>1, <2>2, StubBaseIs DEF Points, Least
  <2>4. score \in Nat /\ score >= 10 /\ score <= 15
    BY <2>3, StubScoreIs
  <2> HIDE DEF score
  <2>5. PortExemption(s, score) = "TRA"
    BY <2>1, <2>2, <2>4 DEF PortExemption, PortIsTra, PortTiers, PortIsLowValue
  <2>6. PortDecide(score, "TRA", s.f.card) = "APPROVE"
    BY <2>2, <2>4 DEF PortDecide
  <2> QED
    BY <2>1, <2>2, <2>5, <2>6
<1>4. ASSUME i = 3 PROVE Good /\ Kept
  <2>0. s = Scenario(850, CardOf(3, 1, FALSE, "retail"), MerchantOf(1500, FALSE), NoAgg, "SCA", "NONE")
    BY <1>4 DEF Scenarios
  <2> HIDE DEF s
  <2>1. /\ s.f \in FeatureSet /\ s.f.card.found = TRUE /\ s.f.merchant.found = TRUE
        /\ s.spent = 0 /\ s.count = 0 /\ s.promised = "SCA" /\ s.exemption = "NONE"
    BY <2>0 DEF Scenario, Features, CardOf, MerchantOf, NoAgg, AggOf, FeatureSet, Segments
  <2>2. /\ s.f.amount = 850 /\ s.f.card.tier = 3 /\ s.f.card.chargebacks = 1
        /\ s.f.card.blocked = FALSE /\ s.f.card.segment = "retail"
        /\ s.f.merchant.fraudRate = 1500 /\ s.f.merchant.highRisk = FALSE
        /\ s.f.agg.spent = 0 /\ s.f.agg.count = 0 /\ s.f.agg.declined = 0
    BY <2>0 DEF Scenario, Features, CardOf, MerchantOf, NoAgg, AggOf
  <2>3. StubBase(s.f) = 4000
    BY <2>1, <2>2, StubBaseIs DEF Points, Least
  <2>4. score \in Nat /\ score >= 40 /\ score <= 45
    BY <2>3, StubScoreIs
  <2> HIDE DEF score
  <2>5. PortExemption(s, score) = "NONE"
    BY <2>1, <2>2, <2>4 DEF PortExemption, PortIsTra, PortTiers, PortIsLowValue
  <2>6. PortDecide(score, "NONE", s.f.card) = "SCA"
    BY <2>2, <2>4 DEF PortDecide
  <2> QED
    BY <2>1, <2>2, <2>5, <2>6
<1>5. ASSUME i = 4 PROVE Good /\ Kept
  <2>0. s = Scenario(120, CardOf(2, 0, FALSE, "retail"), MerchantOf(500, FALSE), AggOf(900, 24, 4), "SCA",
                  "NONE")
    BY <1>5 DEF Scenarios
  <2> HIDE DEF s
  <2>1. /\ s.f \in FeatureSet /\ s.f.card.found = TRUE /\ s.f.merchant.found = TRUE
        /\ s.spent = 0 /\ s.count = 0 /\ s.promised = "SCA" /\ s.exemption = "NONE"
    BY <2>0 DEF Scenario, Features, CardOf, MerchantOf, NoAgg, AggOf, FeatureSet, Segments
  <2>2. /\ s.f.amount = 120 /\ s.f.card.tier = 2 /\ s.f.card.chargebacks = 0
        /\ s.f.card.blocked = FALSE /\ s.f.card.segment = "retail"
        /\ s.f.merchant.fraudRate = 500 /\ s.f.merchant.highRisk = FALSE
        /\ s.f.agg.spent = 900 /\ s.f.agg.count = 24 /\ s.f.agg.declined = 4
    BY <2>0 DEF Scenario, Features, CardOf, MerchantOf, NoAgg, AggOf
  <2>3. StubBase(s.f) = 5000
    BY <2>1, <2>2, StubBaseIs DEF Points, Least
  <2>4. score \in Nat /\ score >= 50 /\ score <= 55
    BY <2>3, StubScoreIs
  <2> HIDE DEF score
  <2>5. PortExemption(s, score) = "NONE"
    BY <2>1, <2>2, <2>4 DEF PortExemption, PortIsTra, PortTiers, PortIsLowValue
  <2>6. PortDecide(score, "NONE", s.f.card) = "SCA"
    BY <2>2, <2>4 DEF PortDecide
  <2> QED
    BY <2>1, <2>2, <2>5, <2>6
<1>6. ASSUME i = 5 PROVE Good /\ Kept
  <2>0. s = Scenario(430, CardOf(4, 0, TRUE, "retail"), MerchantOf(300, FALSE), NoAgg, "DECLINE", "NONE")
    BY <1>6 DEF Scenarios
  <2> HIDE DEF s
  <2>1. /\ s.f \in FeatureSet /\ s.f.card.found = TRUE /\ s.f.merchant.found = TRUE
        /\ s.spent = 0 /\ s.count = 0 /\ s.promised = "DECLINE" /\ s.exemption = "NONE"
    BY <2>0 DEF Scenario, Features, CardOf, MerchantOf, NoAgg, AggOf, FeatureSet, Segments
  <2>2. /\ s.f.amount = 430 /\ s.f.card.tier = 4 /\ s.f.card.chargebacks = 0
        /\ s.f.card.blocked = TRUE /\ s.f.card.segment = "retail"
        /\ s.f.merchant.fraudRate = 300 /\ s.f.merchant.highRisk = FALSE
        /\ s.f.agg.spent = 0 /\ s.f.agg.count = 0 /\ s.f.agg.declined = 0
    BY <2>0 DEF Scenario, Features, CardOf, MerchantOf, NoAgg, AggOf
  <2>3. StubBase(s.f) = 11300
    BY <2>1, <2>2, StubBaseIs DEF Points, Least
  <2>4. score \in Nat /\ score >= 100 /\ score <= 100
    BY <2>3, StubScoreIs
  <2> HIDE DEF score
  <2>5. PortExemption(s, score) = "NONE"
    BY <2>1, <2>2, <2>4 DEF PortExemption, PortIsTra, PortTiers, PortIsLowValue
  <2>6. PortDecide(score, "NONE", s.f.card) = "DECLINE"
    BY <2>2, <2>4 DEF PortDecide
  <2> QED
    BY <2>1, <2>2, <2>5, <2>6
<1>7. ASSUME i = 6 PROVE Good /\ Kept
  <2>0. s = Scenario(5200, CardOf(5, 5, FALSE, "retail"), MerchantOf(5000, TRUE), NoAgg, "DECLINE",
                  "NONE")
    BY <1>7 DEF Scenarios
  <2> HIDE DEF s
  <2>1. /\ s.f \in FeatureSet /\ s.f.card.found = TRUE /\ s.f.merchant.found = TRUE
        /\ s.spent = 0 /\ s.count = 0 /\ s.promised = "DECLINE" /\ s.exemption = "NONE"
    BY <2>0 DEF Scenario, Features, CardOf, MerchantOf, NoAgg, AggOf, FeatureSet, Segments
  <2>2. /\ s.f.amount = 5200 /\ s.f.card.tier = 5 /\ s.f.card.chargebacks = 5
        /\ s.f.card.blocked = FALSE /\ s.f.card.segment = "retail"
        /\ s.f.merchant.fraudRate = 5000 /\ s.f.merchant.highRisk = TRUE
        /\ s.f.agg.spent = 0 /\ s.f.agg.count = 0 /\ s.f.agg.declined = 0
    BY <2>0 DEF Scenario, Features, CardOf, MerchantOf, NoAgg, AggOf
  <2>3. StubBase(s.f) = 15000
    BY <2>1, <2>2, StubBaseIs DEF Points, Least
  <2>4. score \in Nat /\ score >= 100 /\ score <= 100
    BY <2>3, StubScoreIs
  <2> HIDE DEF score
  <2>5. PortExemption(s, score) = "NONE"
    BY <2>1, <2>2, <2>4 DEF PortExemption, PortIsTra, PortTiers, PortIsLowValue
  <2>6. PortDecide(score, "NONE", s.f.card) = "DECLINE"
    BY <2>2, <2>4 DEF PortDecide
  <2> QED
    BY <2>1, <2>2, <2>5, <2>6
<1> HIDE DEF s, score
<1>8. Good /\ Kept
  <2> HIDE DEF Good, Kept
  <2> QED
    BY <1>1, <1>2, <1>3, <1>4, <1>5, <1>6, <1>7
<1>9. /\ Evaluate(s, j).decision = PortDecide(score, PortExemption(s, score), s.f.card)
      /\ Evaluate(s, j).exemption = PortExemption(s, score)
  BY PortScores DEF Evaluate, score
<1>10. Evaluate(s, j).decision = s.promised /\ Evaluate(s, j).exemption = s.exemption
  BY <1>8, <1>9
<1> QED
  BY <1>8, <1>10 DEF s
-----------------------------------------------------------------------------
(* The graph of the web console. *)
StepKinds == {"probe", "recovered", "case", "synthetic", "record", "uncleared"}
StreamSteps ==
  [kind : {"tx", "tx_agg", "score"}, of : Profiles] \cup [kind : {"scenario"}, of : 1 .. 6]
  \cup [kind : StepKinds, of : {"none"}]

\* What a runner yields: a ring is cleared of nothing but right after it was recorded, and a case
\* is only what a transaction leads to.
WellMade(todo) ==
  /\ todo \in Seq(StreamSteps)
  /\ \A i \in 1 .. Len(todo) :
       /\ todo[i].kind # "case"
       /\ todo[i].kind = "uncleared" => i > 1 /\ todo[i - 1].kind = "record"

\* What is left of it, whose first step may be either.
LeftOver(todo) ==
  /\ todo \in Seq(StreamSteps)
  /\ \A i \in 2 .. Len(todo) :
       /\ todo[i].kind # "case"
       /\ todo[i].kind = "uncleared" => todo[i - 1].kind = "record"

LEMMA MadeIsLeft ==
  ASSUME NEW todo, WellMade(todo)
  PROVE  /\ todo \in Seq(StreamSteps) /\ LeftOver(todo)
         /\ todo # <<>> => Head(todo).kind # "uncleared"
<1>1. todo \in Seq(StreamSteps)
  BY DEF WellMade
<1>2. \A i \in 2 .. Len(todo) : i \in 1 .. Len(todo)
  BY <1>1
<1>3. LeftOver(todo)
  BY <1>1, <1>2 DEF WellMade, LeftOver
<1>4. todo # <<>> => 1 \in 1 .. Len(todo) /\ Head(todo) = todo[1]
  BY <1>1
<1> QED
  BY <1>1, <1>3, <1>4 DEF WellMade

LEMMA ConcatMade ==
  ASSUME NEW a, NEW b, WellMade(a), WellMade(b)
  PROVE  WellMade(a \o b)
<1>1. /\ a \o b \in Seq(StreamSteps) /\ Len(a \o b) = Len(a) + Len(b)
      /\ Len(a) \in Nat /\ Len(b) \in Nat
      /\ \A i \in 1 .. Len(a) + Len(b) :
           (a \o b)[i] = IF i <= Len(a) THEN a[i] ELSE b[i - Len(a)]
  BY DEF WellMade
<1>2. ASSUME NEW i \in 1 .. Len(a \o b)
      PROVE  /\ (a \o b)[i].kind # "case"
             /\ (a \o b)[i].kind = "uncleared" => i > 1 /\ (a \o b)[i - 1].kind = "record"
  <2> DEFINE c == a \o b
  <2> HIDE DEF c
  <2>1. CASE i <= Len(a)
    <3>1. c[i] = a[i] /\ (i > 1 => c[i - 1] = a[i - 1])
      BY <1>1, <2>1 DEF c
    <3>2. i \in 1 .. Len(a)
      BY <1>1, <2>1
    <3> QED
      BY <3>1, <3>2 DEF WellMade, c
  <2>2. CASE i > Len(a)
    <3> DEFINE j == i - Len(a)
    <3>1. j \in 1 .. Len(b) /\ c[i] = b[j]
      BY <1>1, <2>2 DEF c
    <3>2. j > 1 => i > 1 /\ c[i - 1] = b[j - 1]
      BY <1>1, <2>2 DEF c
    <3> HIDE DEF j
    <3> QED
      BY <3>1, <3>2 DEF WellMade, c
  <2> QED
    BY <1>1, <2>1, <2>2
<1> QED
  BY <1>1, <1>2 DEF WellMade

LEMMA RepeatMade ==
  ASSUME NEW step \in StreamSteps, step.kind \notin {"case", "uncleared"}, NEW n \in Nat
  PROVE  WellMade(Repeat(step, n))
BY DEF WellMade, Repeat

LEMMA OneMade ==
  ASSUME NEW step \in StreamSteps, step.kind \notin {"case", "uncleared"}
  PROVE  WellMade(<<step>>)
BY DEF WellMade

LEMMA StepsAre ==
  /\ \A profile \in Profiles : Post(profile) \in StreamSteps /\ Single(profile) \in StreamSteps
  /\ \A kind \in StepKinds : Step(kind) \in StreamSteps
BY DEF Post, Single, Step, StreamSteps, StepKinds

LEMMA CuratedMade == WellMade(Curated)
<1>1. DOMAIN Scenarios = 1 .. 6
  BY DEF Scenarios
<1>2. \A i \in 1 .. 6 : [kind |-> "scenario", of |-> i] \in StreamSteps
  BY DEF StreamSteps, StepKinds
<1> QED
  BY <1>1, <1>2 DEF WellMade, Curated

\* Every runner's events are well made, and so are those of all of them in a row.
LEMMA RunnersMade ==
  ASSUME NEW action \in Actions
  PROVE  WellMade(RunnerOf(action))
<1> DEFINE Ring == Repeat(Post("ring"), RingSize)
           Recording2 == <<Step("record"), Step("uncleared")>>
           Loads ==
             <<Post("normal")>> \o Repeat([kind |-> "tx_agg", of |-> "sca"], BurstSize - 1)
           Inject == Ring \o Recording2
           Health == Repeat(Step("probe"), 2)
           Singles == <<Single("normal"), Single("sca"), Single("decline")>>
<1>1. WellMade(Health)
  BY StepsAre, RepeatMade DEF Step, StepKinds
<1>2. WellMade(Loads)
  <2>1. WellMade(<<Post("normal")>>)
    BY StepsAre, OneMade DEF Post, Profiles
  <2>2. [kind |-> "tx_agg", of |-> "sca"] \in StreamSteps /\ BurstSize - 1 \in Nat
    BY ClientAssumption DEF StreamSteps, StepKinds, Profiles
  <2>3. WellMade(Repeat([kind |-> "tx_agg", of |-> "sca"], BurstSize - 1))
    BY <2>2, RepeatMade
  <2> QED
    BY <2>1, <2>3, ConcatMade
<1>3. WellMade(Inject)
  <2>1. WellMade(Ring)
    <3>1. Post("ring") \in StreamSteps /\ Post("ring").kind = "tx"
      BY StepsAre DEF Post, Profiles
    <3> QED
      BY <3>1, RepeatMade, ClientAssumption
  <2>2. WellMade(Recording2)
    BY StepsAre DEF WellMade, Step, StepKinds
  <2> QED
    BY <2>1, <2>2, ConcatMade
<1>4. WellMade(Singles)
  BY StepsAre DEF WellMade, Single, Profiles
<1>5. WellMade(<<Single("decline")>>) /\ WellMade(<<Step("synthetic")>>)
  BY StepsAre, OneMade DEF Single, Step, StepKinds, Profiles
<1> HIDE DEF Health, Loads, Inject, Singles
<1>6. WellMade(Health \o Singles \o Curated \o Loads \o Inject)
  BY <1>1, <1>2, <1>3, <1>4, CuratedMade, ConcatMade
<1> QED
  BY <1>1, <1>2, <1>3, <1>5, <1>6, CuratedMade
  DEF RunnerOf, Actions, Health, Loads, Inject, Singles

\* One step off the front.
LEMMA OneStepOff ==
  ASSUME NEW todo, LeftOver(todo), todo # <<>>
  PROVE  /\ Head(todo) \in StreamSteps /\ LeftOver(Tail(todo))
         /\ Head(todo).kind # "record" => WellMade(Tail(todo))
         /\ Tail(todo) # <<>> => Head(Tail(todo)).kind # "case"
         /\ Head(todo).kind # "record" /\ Tail(todo) # <<>> => Head(Tail(todo)).kind # "uncleared"
<1>1. /\ Len(todo) \in Nat \ {0} /\ Tail(todo) \in Seq(StreamSteps) /\ Head(todo) = todo[1]
      /\ Len(Tail(todo)) = Len(todo) - 1 /\ Head(todo) \in StreamSteps
      /\ \A i \in 1 .. Len(todo) - 1 : Tail(todo)[i] = todo[i + 1]
  BY DEF LeftOver
<1> DEFINE rest == Tail(todo)
<1> HIDE DEF rest
<1>2. ASSUME NEW i \in 1 .. Len(rest)
      PROVE  /\ rest[i].kind # "case"
             /\ rest[i].kind = "uncleared" => IF i = 1 THEN Head(todo).kind = "record"
                                              ELSE rest[i - 1].kind = "record"
  <2>1. i + 1 \in 2 .. Len(todo) /\ rest[i] = todo[i + 1] /\ i + 1 - 1 = i
    BY <1>1 DEF rest
  <2>2. rest[i].kind # "case" /\ (rest[i].kind = "uncleared" => todo[i].kind = "record")
    BY <2>1 DEF LeftOver
  <2>3. i # 1 => rest[i - 1] = todo[i]
    BY <1>1 DEF rest
  <2> QED
    BY <1>1, <2>2, <2>3
<1>3. rest \in Seq(StreamSteps) /\ (rest # <<>> => Head(rest) = rest[1] /\ 1 \in 1 .. Len(rest))
  BY <1>1 DEF rest
<1> QED
  BY <1>1, <1>2, <1>3 DEF LeftOver, WellMade, rest

\* A step in front of what is well made.
LEMMA OneStepOn ==
  ASSUME NEW todo, WellMade(todo), NEW step \in StreamSteps
  PROVE  LeftOver(<<step>> \o todo) /\ <<step>> \o todo # <<>> /\ Head(<<step>> \o todo) = step
<1>1. /\ <<step>> \o todo \in Seq(StreamSteps) /\ Len(<<step>> \o todo) = Len(todo) + 1
      /\ Len(todo) \in Nat /\ (<<step>> \o todo)[1] = step
      /\ \A i \in 2 .. Len(todo) + 1 : (<<step>> \o todo)[i] = todo[i - 1]
  BY DEF WellMade
<1> DEFINE all == <<step>> \o todo
<1> HIDE DEF all
<1>2. ASSUME NEW i \in 2 .. Len(all)
      PROVE  all[i].kind # "case" /\ (all[i].kind = "uncleared" => all[i - 1].kind = "record")
  <2>1. i - 1 \in 1 .. Len(todo) /\ all[i] = todo[i - 1]
    BY <1>1 DEF all
  <2>2. i - 1 > 1 => all[i - 1] = todo[i - 1 - 1]
    BY <1>1 DEF all
  <2> QED
    BY <2>1, <2>2 DEF WellMade
<1> QED
  BY <1>1, <1>2 DEF LeftOver, all

ConsoleTypes ==
  /\ stream \in [Tabs -> [running : BOOLEAN, todo : Seq(StreamSteps)]]
  /\ \A t \in Tabs : LeftOver(stream[t].todo)
  /\ clear \in [Tabs -> {"idle", "sent", "metrics", "graph"}]
  /\ graph \in [at : {"idle", "found", "none found"}, after : BOOLEAN,
                shown : {"none", "null", "ring", "empty", "illustrative"}]
  /\ counts \in [runs : [Tabs -> Nat], clears : Nat]
  /\ last \in {"none", "ring"} /\ cleared \in BOOLEAN /\ raced \in BOOLEAN

\* While no injection met a reset or the request: one that is half recorded is there and nothing
\* is being reset; without one, after the first click on Clear, the graph is cleared or a reset
\* is under way; and a request that found none, made after the reset, will find it cleared.
GraphInv ==
  /\ ConsoleTypes
  /\ ~raced /\ Recording => last = "ring" /\ ~Resetting
  /\ ~raced /\ counts.clears > 0 /\ last = "none" => cleared \/ \E t \in Tabs : clear[t] # "idle"
  /\ ~raced /\ graph.after /\ graph.at = "none found" => cleared
  /\ ClearedGraphStaysCleared

LEMMA GraphStart == ConsoleInit => GraphInv
<1> SUFFICES ASSUME ConsoleInit PROVE GraphInv
  OBVIOUS
<1>1. /\ \A t \in Tabs : stream[t] = [running |-> FALSE, todo |-> <<>>]
      /\ stream = [t \in Tabs |-> stream[t]]
  BY DEF ConsoleInit, Idle
<1>2. LeftOver(<<>>)
  BY DEF LeftOver
<1>3. ConsoleTypes
  <2>1. /\ stream \in [Tabs -> [running : BOOLEAN, todo : Seq(StreamSteps)]]
        /\ \A t \in Tabs : LeftOver(stream[t].todo)
    <3>1. <<>> \in Seq(StreamSteps)
      OBVIOUS
    <3>2. \A t \in Tabs : stream[t].todo = <<>>
      BY <1>1
    <3>3. \A t \in Tabs : stream[t] \in [running : BOOLEAN, todo : Seq(StreamSteps)]
      <4>1. [running |-> FALSE, todo |-> <<>>] \in [running : BOOLEAN, todo : Seq(StreamSteps)]
        BY <3>1
      <4> QED
        BY <1>1, <4>1, Zenon
    <3> QED
      BY <1>1, <1>2, <3>2, <3>3
  <2>2. /\ clear \in [Tabs -> {"idle", "sent", "metrics", "graph"}]
        /\ counts \in [runs : [Tabs -> Nat], clears : Nat]
    BY DEF ConsoleInit
  <2>3. /\ graph \in [at : {"idle", "found", "none found"}, after : BOOLEAN,
                      shown : {"none", "null", "ring", "empty", "illustrative"}]
        /\ last \in {"none", "ring"} /\ cleared \in BOOLEAN /\ raced \in BOOLEAN
    BY DEF ConsoleInit, NoRequest
  <2> QED
    BY <2>1, <2>2, <2>3 DEF ConsoleTypes
<1>4. ~Recording
  BY <1>1 DEF Recording
<1> QED
  BY <1>3, <1>4 DEF ConsoleInit, GraphInv, ClearedGraphStaysCleared, NoRequest

\* A step of one tab's stream.
StreamStep(t) ==
  StartStream(t) \/ Emit(t) \/ OpenCase(t) \/ Synthesize(t) \/ EndStream(t) \/ Record(t)

\* It leaves the others alone, and no stream about to clear the flag that has not recorded first.
LEMMA StreamGoesOn ==
  ASSUME ConsoleTypes, NEW t \in Tabs, StreamStep(t)
  PROVE  /\ stream' \in [Tabs -> [running : BOOLEAN, todo : Seq(StreamSteps)]]
         /\ \A u \in Tabs : LeftOver(stream'[u].todo)
         /\ \A u \in Tabs \ {t} : stream'[u] = stream[u]
         /\ stream'[t].todo # <<>> /\ Head(stream'[t].todo).kind = "uncleared" =>
              Record(t) /\ Head(stream[t].todo).kind = "record"
<1> DEFINE todo == stream[t].todo
<1> DEFINE Streams == [running : BOOLEAN, todo : Seq(StreamSteps)]
<1>1. stream \in [Tabs -> Streams] /\ LeftOver(todo) /\ \A u \in Tabs : LeftOver(stream[u].todo)
  BY DEF ConsoleTypes
<1>2. ASSUME NEW x \in Streams, stream' = [stream EXCEPT ![t] = x], LeftOver(x.todo),
             x.todo # <<>> /\ Head(x.todo).kind = "uncleared" =>
               Record(t) /\ Head(todo).kind = "record"
      PROVE  /\ stream' \in [Tabs -> Streams] /\ \A u \in Tabs : LeftOver(stream'[u].todo)
             /\ \A u \in Tabs \ {t} : stream'[u] = stream[u]
             /\ stream'[t].todo # <<>> /\ Head(stream'[t].todo).kind = "uncleared" =>
                  Record(t) /\ Head(todo).kind = "record"
  <2>1. stream'[t] = x
    BY <1>1, <1>2
  <2>2. \A u \in Tabs \ {t} : stream'[u] = stream[u]
    BY <1>1, <1>2
  <2>3. stream' \in [Tabs -> Streams]
    BY <1>1, <1>2
  <2> QED
    BY <1>1, <1>2, <2>1, <2>2, <2>3
<1>3. ASSUME NEW rest \in Seq(StreamSteps), stream' = [stream EXCEPT ![t].todo = rest],
             LeftOver(rest),
             rest # <<>> /\ Head(rest).kind = "uncleared" => Record(t) /\ Head(todo).kind = "record"
      PROVE  /\ stream' \in [Tabs -> Streams] /\ \A u \in Tabs : LeftOver(stream'[u].todo)
             /\ \A u \in Tabs \ {t} : stream'[u] = stream[u]
             /\ stream'[t].todo # <<>> /\ Head(stream'[t].todo).kind = "uncleared" =>
                  Record(t) /\ Head(todo).kind = "record"
  <2> DEFINE x == [stream[t] EXCEPT !.todo = rest]
  <2>1. x \in Streams /\ x.todo = rest /\ stream' = [stream EXCEPT ![t] = x]
    BY <1>1, <1>3
  <2> HIDE DEF x
  <2> QED
    BY <1>2, <1>3, <2>1
<1>4. CASE StartStream(t)
  <2>1. PICK action \in Offered[t] :
          stream' = [stream EXCEPT ![t] = [running |-> TRUE, todo |-> RunnerOf(action)]]
    BY <1>4 DEF StartStream
  <2>2. action \in Actions
    BY ConsoleAssumption
  <2>3. WellMade(RunnerOf(action))
    BY <2>2, RunnersMade
  <2> DEFINE made == RunnerOf(action)
  <2> HIDE DEF made
  <2>4. made \in Seq(StreamSteps) /\ LeftOver(made)
        /\ (made # <<>> => Head(made).kind # "uncleared")
    BY <2>3, MadeIsLeft DEF made
  <2>5. stream' = [stream EXCEPT ![t] = [running |-> TRUE, todo |-> made]]
    BY <2>1 DEF made
  <2>6. [running |-> TRUE, todo |-> made] \in Streams /\ [running |-> TRUE, todo |-> made].todo = made
    BY <2>4
  <2> QED
    BY <1>2, <2>4, <2>5, <2>6
<1>5. CASE Emit(t)
  <2>1. PICK decision : stream' = [stream EXCEPT ![t].todo = FollowUp(Head(todo), decision) \o Tail(todo)]
    BY <1>5 DEF Emit, Written
  <2>2. todo # <<>> /\ Head(todo).kind # "record"
    BY <1>5 DEF Emit
  <2>3. WellMade(Tail(todo))
    BY <1>1, <2>2, OneStepOff
  <2> DEFINE rest == FollowUp(Head(todo), decision) \o Tail(todo)
  <2>4. /\ rest \in Seq(StreamSteps) /\ LeftOver(rest)
        /\ rest # <<>> => Head(rest).kind # "uncleared"
    <3>1. CASE FollowUp(Head(todo), decision) = <<>>
      <4> DEFINE tail == Tail(todo)
      <4>1. rest = <<>> \o tail /\ tail \in Seq(StreamSteps) /\ WellMade(tail)
        BY <2>3, <3>1 DEF WellMade
      <4> HIDE DEF tail, rest
      <4>2. rest = tail
        BY <4>1
      <4>3. WellMade(rest)
        BY <4>1, <4>2
      <4> QED
        BY <4>3, MadeIsLeft
    <3>2. CASE \E kind \in {"case", "recovered"} : FollowUp(Head(todo), decision) = <<Step(kind)>>
      <4>1. PICK kind \in {"case", "recovered"} : FollowUp(Head(todo), decision) = <<Step(kind)>>
        BY <3>2
      <4>2. Step(kind) \in StreamSteps /\ Step(kind).kind # "uncleared"
        BY StepsAre DEF Step, StepKinds
      <4>3. rest = <<Step(kind)>> \o Tail(todo)
        BY <4>1
      <4> HIDE DEF rest
      <4> QED
        BY <2>3, <4>2, <4>3, OneStepOn DEF LeftOver
    <3> QED
      BY <3>1, <3>2 DEF FollowUp
  <2> HIDE DEF rest
  <2>5. stream' = [stream EXCEPT ![t].todo = rest]
    BY <2>1 DEF rest
  <2> QED
    BY <1>3, <2>4, <2>5
<1>6. CASE OpenCase(t) \/ Synthesize(t) \/ Record(t)
  <2>1. stream' = [stream EXCEPT ![t].todo = Tail(todo)] /\ todo # <<>>
    BY <1>6 DEF OpenCase, Synthesize, Record
  <2> DEFINE rest == Tail(todo)
  <2>2. /\ LeftOver(rest) /\ rest \in Seq(StreamSteps)
        /\ rest # <<>> /\ Head(rest).kind = "uncleared" =>
             Record(t) /\ Head(todo).kind = "record"
    <3>1. ~Record(t) => Head(todo).kind # "record"
      BY <1>6 DEF OpenCase, Synthesize
    <3> QED
      BY <1>1, <2>1, <3>1, OneStepOff DEF LeftOver
  <2> HIDE DEF rest
  <2>3. stream' = [stream EXCEPT ![t].todo = rest]
    BY <2>1 DEF rest
  <2> QED
    BY <1>3, <2>1, <2>2, <2>3
<1>7. CASE EndStream(t)
  <2>1. stream' = [stream EXCEPT ![t] = [running |-> FALSE, todo |-> <<>>]]
    BY <1>7 DEF EndStream, Idle
  <2>2. LeftOver(<<>>) /\ [running |-> FALSE, todo |-> <<>>] \in Streams
    BY DEF LeftOver
  <2> QED
    BY <1>2, <2>1, <2>2
<1> QED
  BY <1>4, <1>5, <1>6, <1>7 DEF StreamStep

\* A step of a stream that records nothing touches neither the graph nor the resets.
LEMMA StreamKeepsGraph ==
  ASSUME GraphInv, NEW t \in Tabs,
         StartStream(t) \/ Emit(t) \/ OpenCase(t) \/ Synthesize(t) \/ EndStream(t)
  PROVE  GraphInv'
<1>1. StreamStep(t) /\ ConsoleTypes
  BY DEF StreamStep, GraphInv
<1>2. /\ UNCHANGED <<last, cleared, clear, graph, raced>>
      /\ counts' \in [runs : [Tabs -> Nat], clears : Nat] /\ counts'.clears = counts.clears
  <2>1. counts \in [runs : [Tabs -> Nat], clears : Nat]
    BY <1>1 DEF ConsoleTypes
  <2>2. CASE StartStream(t)
    <3>1. counts' = [counts EXCEPT !.runs[t] = @ + 1] /\ counts.runs[t] \in Nat
      BY <2>1, <2>2 DEF StartStream
    <3> QED
      BY <2>1, <2>2, <3>1 DEF StartStream
  <2>3. CASE Emit(t) \/ OpenCase(t) \/ Synthesize(t) \/ EndStream(t)
    BY <2>1, <2>3 DEF Emit, OpenCase, Synthesize, EndStream
  <2> QED
    BY <2>2, <2>3
<1>3. ConsoleTypes'
  BY <1>1, <1>2, StreamGoesOn DEF ConsoleTypes
<1>4. ~Record(t)
  <2>1. stream \in [Tabs -> [running : BOOLEAN, todo : Seq(StreamSteps)]]
    BY <1>1 DEF ConsoleTypes
  <2>2. EndStream(t) => ~stream'[t].running
    BY <2>1 DEF EndStream, Idle
  <2>3. Record(t) => /\ stream'[t].running /\ stream[t].running /\ stream[t].todo # <<>>
                     /\ Head(stream[t].todo).kind \in {"record", "uncleared"}
    BY <2>1 DEF Record
  <2>4. StartStream(t) => ~stream[t].running
    BY DEF StartStream
  <2>5. Emit(t) \/ OpenCase(t) \/ Synthesize(t) =>
          Head(stream[t].todo).kind \notin {"record", "uncleared"}
    BY DEF Emit, OpenCase, Synthesize
  <2> QED
    BY <2>2, <2>3, <2>4, <2>5
<1>5. Recording' => Recording
  BY <1>1, <1>4, StreamGoesOn DEF Recording
<1> QED
  BY <1>2, <1>3, <1>5 DEF GraphInv, ClearedGraphStaysCleared, Resetting

\* Recording: first the ring is there, with the flag to clear next, then the flag is cleared.
LEMMA RecordKeepsGraph ==
  ASSUME GraphInv, NEW t \in Tabs, Record(t)
  PROVE  GraphInv'
<1>1. StreamStep(t) /\ ConsoleTypes
  BY DEF StreamStep, GraphInv
<1>2. /\ UNCHANGED <<clear, graph, counts>>
      /\ \/ last' = "ring" /\ cleared' = cleared /\ Head(stream[t].todo).kind = "record"
         \/ last' = last /\ cleared' = FALSE /\ Recording
              /\ Head(stream[t].todo).kind = "uncleared"
      /\ raced' = (raced \/ Resetting \/ graph.at # "idle")
  BY DEF Record, Recording
<1>3. ConsoleTypes'
  <2>1. last' \in {"none", "ring"} /\ cleared' \in BOOLEAN /\ raced' \in BOOLEAN
    BY <1>1, <1>2 DEF ConsoleTypes
  <2> QED
    BY <1>1, <1>2, <2>1, StreamGoesOn DEF ConsoleTypes
<1>4. Recording' => Recording \/ Head(stream[t].todo).kind = "record"
  BY <1>1, StreamGoesOn DEF Recording
<1>5. ~raced' => ~raced /\ ~Resetting /\ ~Resetting' /\ graph.at = "idle"
  BY <1>2 DEF Resetting
<1>6. ~raced' => last' = "ring"
  BY <1>2, <1>5 DEF GraphInv
<1>7. graph.after /\ graph.shown = "illustrative" => raced'
  BY <1>2 DEF GraphInv, ClearedGraphStaysCleared
<1> QED
  BY <1>2, <1>3, <1>5, <1>6, <1>7 DEF GraphInv, ClearedGraphStaysCleared

\* A click on Clear, and the three steps of its request.
LEMMA ClearKeepsGraph ==
  ASSUME GraphInv, NEW t \in Tabs,
         ClickClear(t) \/ ResetMetrics(t) \/ ResetInjection(t) \/ ResetGraph(t)
  PROVE  GraphInv'
<1>1. ConsoleTypes
  BY DEF GraphInv
<1>2. CASE ClickClear(t)
  <2>1. /\ clear' = [clear EXCEPT ![t] = "sent"] /\ UNCHANGED <<stream, last, cleared, graph, raced>>
        /\ clear[t] = "idle" /\ counts' = [counts EXCEPT !.clears = @ + 1]
    BY <1>2 DEF ClickClear
  <2>2. counts' \in [runs : [Tabs -> Nat], clears : Nat]
    <3>1. counts \in [runs : [Tabs -> Nat], clears : Nat]
      BY <1>1 DEF ConsoleTypes
    <3>2. counts.clears \in Nat
      BY <3>1
    <3> DEFINE clears == counts.clears + 1
    <3>3. clears \in Nat /\ counts' = [counts EXCEPT !.clears = clears]
      BY <2>1, <3>2
    <3> HIDE DEF clears
    <3> QED
      BY <3>1, <3>3
  <2>3. ConsoleTypes' /\ clear'[t] = "sent" /\ \A u \in Tabs \ {t} : clear'[u] = clear[u]
    BY <1>1, <2>1, <2>2 DEF ConsoleTypes
  <2>4. Resetting' => Resetting
    BY <2>3 DEF Resetting
  <2>5. Recording' => Recording
    BY <2>1 DEF Recording
  <2> QED
    BY <2>1, <2>3, <2>4, <2>5 DEF GraphInv, ClearedGraphStaysCleared
<1>3. CASE ResetMetrics(t)
  <2>1. /\ clear' = [clear EXCEPT ![t] = "metrics"]
        /\ UNCHANGED <<stream, last, cleared, graph, counts>> /\ raced' = (raced \/ Recording)
    BY <1>3 DEF ResetMetrics
  <2>2. ConsoleTypes' /\ clear'[t] = "metrics"
    BY <1>1, <2>1 DEF ConsoleTypes
  <2>3. Recording' = Recording
    BY <2>1 DEF Recording
  <2>4. ~raced' => ~raced /\ ~Recording'
    BY <2>1, <2>3
  <2>5. clear'[t] # "idle"
    BY <2>2
  <2> QED
    BY <2>1, <2>2, <2>4, <2>5 DEF GraphInv, ClearedGraphStaysCleared
<1>4. CASE ResetInjection(t)
  <2>1. /\ clear' = [clear EXCEPT ![t] = "graph"] /\ last' = "none" /\ clear[t] = "metrics"
        /\ UNCHANGED <<stream, cleared, graph, counts, raced>>
    BY <1>4 DEF ResetInjection
  <2>2. ConsoleTypes' /\ clear'[t] = "graph"
    BY <1>1, <2>1 DEF ConsoleTypes
  <2>3. Recording' => Recording
    BY <2>1 DEF Recording
  <2>4. Resetting
    BY <2>1 DEF Resetting
  <2>5. clear'[t] # "idle"
    BY <2>2
  <2> QED
    BY <2>1, <2>2, <2>3, <2>4, <2>5 DEF GraphInv, ClearedGraphStaysCleared
<1>5. CASE ResetGraph(t)
  <2>1. /\ clear' = [clear EXCEPT ![t] = "idle"] /\ cleared' = TRUE /\ clear[t] = "graph"
        /\ UNCHANGED <<stream, last, graph, counts, raced>>
    BY <1>5 DEF ResetGraph
  <2>2. ConsoleTypes'
    BY <1>1, <2>1 DEF ConsoleTypes
  <2>3. Recording' => Recording
    BY <2>1 DEF Recording
  <2>4. Resetting
    BY <2>1 DEF Resetting
  <2> QED
    BY <2>1, <2>2, <2>3, <2>4 DEF GraphInv, ClearedGraphStaysCleared
<1> QED
  BY <1>2, <1>3, <1>4, <1>5

\* The request for the graph, asked and answered.
LEMMA RequestKeepsGraph ==
  ASSUME GraphInv, GraphAsked \/ GraphAnswered
  PROVE  GraphInv'
<1>1. ConsoleTypes /\ UNCHANGED <<stream, last, cleared, clear, counts>>
  BY DEF GraphInv, GraphAsked, GraphAnswered
<1>2. Recording' = Recording /\ Resetting' = Resetting
  BY <1>1 DEF Recording, Resetting
<1>3. CASE GraphAsked
  <2> DEFINE at == IF last # "none" THEN "found" ELSE "none found"
             after == counts.clears > 0 /\ \A t \in Tabs : clear[t] = "idle"
  <2>1. graph' = [at |-> at, shown |-> "none", after |-> after] /\ raced' = (raced \/ Recording)
    BY <1>3 DEF GraphAsked
  <2>2. PICK b \in BOOLEAN : b = after
    OBVIOUS
  <2>3. graph'.at = at /\ graph'.shown = "none" /\ graph'.after = b
        /\ graph' = [at |-> at, shown |-> "none", after |-> b]
    BY <2>1, <2>2
  <2>4. at \in {"idle", "found", "none found"}
    OBVIOUS
  <2>5. ConsoleTypes'
    <3> HIDE DEF at, after
    <3>1. graph' \in [at : {"idle", "found", "none found"}, after : BOOLEAN,
                      shown : {"none", "null", "ring", "empty", "illustrative"}]
      BY <2>3, <2>4
    <3>2. raced' \in BOOLEAN
      BY <1>1, <2>1 DEF ConsoleTypes
    <3> QED
      BY <1>1, <3>1, <3>2 DEF ConsoleTypes
  <2>6. ~raced' /\ graph'.after /\ graph'.at = "none found" => cleared
    BY <2>1, <2>2, <2>3 DEF GraphInv
  <2> QED
    BY <1>1, <1>2, <2>1, <2>3, <2>5, <2>6 DEF GraphInv, ClearedGraphStaysCleared
<1>4. CASE GraphAnswered
  <2> DEFINE shown == IF graph.at = "found" THEN (IF last = "none" THEN "null" ELSE last)
                      ELSE IF cleared THEN "empty" ELSE "illustrative"
  <2>1. /\ graph' = [graph EXCEPT !.at = "idle", !.shown = shown] /\ UNCHANGED raced
        /\ graph.at \in {"found", "none found"}
    BY <1>4 DEF GraphAnswered
  <2>2. shown \in {"none", "null", "ring", "empty", "illustrative"}
    BY <1>1 DEF ConsoleTypes
  <2>3. shown = "illustrative" => graph.at = "none found" /\ ~cleared
    BY <1>1, <2>1 DEF ConsoleTypes
  <2> HIDE DEF shown
  <2>4. /\ graph' \in [at : {"idle", "found", "none found"}, after : BOOLEAN,
                       shown : {"none", "null", "ring", "empty", "illustrative"}]
        /\ graph'.at = "idle" /\ graph'.shown = shown /\ graph'.after = graph.after
    BY <1>1, <2>1, <2>2 DEF ConsoleTypes
  <2>5. ConsoleTypes'
    BY <1>1, <2>1, <2>4 DEF ConsoleTypes
  <2>6. graph'.after /\ graph'.shown = "illustrative" => raced'
    BY <2>1, <2>3, <2>4 DEF GraphInv
  <2> QED
    BY <1>1, <1>2, <2>1, <2>4, <2>5, <2>6 DEF GraphInv, ClearedGraphStaysCleared
<1> QED
  BY <1>3, <1>4

LEMMA GraphStep == GraphInv /\ (ConsoleNext \/ UNCHANGED consoleOnly) => GraphInv'
<1> SUFFICES ASSUME GraphInv, ConsoleNext \/ UNCHANGED consoleOnly PROVE GraphInv'
  OBVIOUS
<1>1. ASSUME UNCHANGED <<stream, last, cleared, clear, graph, raced, counts>> PROVE GraphInv'
  BY <1>1 DEF GraphInv, ConsoleTypes, Recording, Resetting, ClearedGraphStaysCleared
<1>2. ASSUME NEW t \in Tabs, CloseTab(t) PROVE GraphInv'
  BY <1>1, <1>2 DEF CloseTab
<1>3. UNCHANGED consoleOnly => GraphInv'
  BY <1>1 DEF consoleOnly
<1> QED
  BY <1>2, <1>3, StreamKeepsGraph, RecordKeepsGraph, ClearKeepsGraph, RequestKeepsGraph
  DEF ConsoleNext
-----------------------------------------------------------------------------
(* The cases and the counters of the web console. *)
PageTypes ==
  /\ page \in [Tabs -> [open : BOOLEAN, total : Nat]]
  /\ \A t \in Tabs : page[t].open \/ page[t].total = 0

\* Tabs whose transaction was declined and whose case is opened next.
Opening ==
  {t \in Tabs : stream[t].running /\ stream[t].todo # <<>> /\ Head(stream[t].todo).kind = "case"}

\* Every case, open or about to be, has its decline among those counted.
CaseInv ==
  /\ ConsoleTypes /\ PageTypes
  /\ metrics \in [Counted -> Nat] /\ cases \in Nat
  /\ ~mixed => cases + Cardinality(Opening) <= metrics["DECLINE"]

LEMMA OpeningIs ==
  /\ IsFiniteSet(Opening) /\ Cardinality(Opening) \in Nat
  /\ \A S \in SUBSET Opening : IsFiniteSet(S) /\ Cardinality(S) \in Nat
                                /\ Cardinality(S) <= Cardinality(Opening)
<1>1. IsFiniteSet(Opening)
  BY FS_Subset, ConsoleAssumption DEF Opening
<1> QED
  BY <1>1, FS_Subset, FS_CardinalityType

LEMMA CaseStart == ConsoleInit => CaseInv
<1> SUFFICES ASSUME ConsoleInit PROVE CaseInv
  OBVIOUS
<1>1. ConsoleTypes
  BY GraphStart DEF GraphInv
<1>2. PageTypes
  BY DEF ConsoleInit, PageTypes, Fresh
<1>3. Opening = {}
  BY DEF ConsoleInit, Idle, Opening
<1>4. metrics \in [Counted -> Nat] /\ metrics["DECLINE"] = 0 /\ cases = 0
  BY DEF ConsoleInit, Zero, Counted
<1> QED
  BY <1>1, <1>2, <1>3, <1>4, FS_EmptySet DEF CaseInv

\* A counter that goes up leaves numbers.
LEMMA CountedUp ==
  ASSUME NEW m \in [Counted -> Nat], NEW d, NEW n \in Nat
  PROVE  /\ [m EXCEPT ![d] = @ + n] \in [Counted -> Nat]
         /\ [m EXCEPT ![d] = @ + n]["DECLINE"] = IF d = "DECLINE" THEN m["DECLINE"] + n
                                                ELSE m["DECLINE"]
<1> DEFINE v == m[d] + n
           up == [m EXCEPT ![d] = v]
<1>1. CASE d \in Counted
  <2>1. m[d] \in Nat /\ v \in Nat /\ "DECLINE" \in Counted
    BY <1>1 DEF Counted
  <2> HIDE DEF v
  <2>2. up \in [Counted -> Nat] /\ up["DECLINE"] = IF d = "DECLINE" THEN v ELSE m["DECLINE"]
    BY <2>1
  <2> QED
    BY <2>2 DEF v
<1>2. CASE d \notin Counted
  <2>1. up = m
    BY <1>2
  <2>2. d # "DECLINE"
    BY <1>2 DEF Counted
  <2> HIDE DEF up
  <2>3. up \in [Counted -> Nat] /\ up["DECLINE"] = m["DECLINE"]
    BY <2>1
  <2> QED
    BY <2>2, <2>3 DEF up
<1> QED
  BY <1>1, <1>2

\* Of what a decision leads to, a case is the first step, and then it was a decline and was counted.
LEMMA CaseFollowsDecline ==
  ASSUME NEW step, NEW decision, NEW rest \in Seq(StreamSteps),
         rest # <<>> => Head(rest).kind # "case",
         FollowUp(step, decision) \o rest # <<>>,
         Head(FollowUp(step, decision) \o rest).kind = "case"
  PROVE  decision = "DECLINE" /\ Recorded(step.kind)
<1>1. CASE step.kind \in {"score", "scenario"} /\ decision = "DECLINE"
  BY <1>1 DEF Recorded
<1>2. CASE FollowUp(step, decision) = <<Step("recovered")>>
  <2> DEFINE r == Step("recovered")
  <2>1. r \in StreamSteps /\ r.kind = "recovered"
    BY StepsAre DEF Step, StepKinds
  <2> HIDE DEF r
  <2>2. Head(<<r>> \o rest) = r
    BY <2>1
  <2> QED
    BY <1>2, <2>1, <2>2 DEF r
<1>3. CASE FollowUp(step, decision) = <<>>
  <2>1. <<>> \o rest = rest
    OBVIOUS
  <2> QED
    BY <1>3, <2>1
<1> QED
  BY <1>1, <1>2, <1>3 DEF FollowUp

LEMMA EmitKeepsCases ==
  ASSUME CaseInv, NEW t \in Tabs, Emit(t)
  PROVE  CaseInv'
<1> DEFINE todo == stream[t].todo
<1>1. PICK decision :
        /\ metrics' = IF Recorded(Head(todo).kind) THEN [metrics EXCEPT ![decision] = @ + 1]
                      ELSE metrics
        /\ Written(t, Head(todo), decision)
  BY DEF Emit
<1>2. /\ todo # <<>> /\ Head(todo).kind \notin {"case", "record"} /\ StreamStep(t) /\ ConsoleTypes
      /\ UNCHANGED <<cases, last, cleared, clear, graph, mixed, raced, counts>>
      /\ LeftOver(todo)
  BY DEF Emit, StreamStep, CaseInv, ConsoleTypes
<1>3. ConsoleTypes'
  BY <1>2, StreamGoesOn DEF ConsoleTypes
<1>4. PageTypes'
  <2> DEFINE total == page[t].total + IF Head(todo).kind = "probe" \/ ~page[t].open THEN 0 ELSE 1
  <2>1. page \in [Tabs -> [open : BOOLEAN, total : Nat]] /\ (page[t].open \/ page[t].total = 0)
    BY DEF CaseInv, PageTypes
  <2>2. page' = [page EXCEPT ![t].total = total] /\ total \in Nat /\ (~page[t].open => total = 0)
    BY <1>1, <2>1 DEF Written
  <2> HIDE DEF total
  <2> QED
    BY <2>1, <2>2 DEF PageTypes, CaseInv
<1>5. /\ metrics' \in [Counted -> Nat]
      /\ metrics'["DECLINE"] = IF decision = "DECLINE" /\ Recorded(Head(todo).kind)
                               THEN metrics["DECLINE"] + 1 ELSE metrics["DECLINE"]
  <2>1. metrics \in [Counted -> Nat]
    BY DEF CaseInv
  <2>2. /\ [metrics EXCEPT ![decision] = @ + 1] \in [Counted -> Nat]
        /\ [metrics EXCEPT ![decision] = @ + 1]["DECLINE"] =
             IF decision = "DECLINE" THEN metrics["DECLINE"] + 1 ELSE metrics["DECLINE"]
    BY <2>1, CountedUp
  <2> DEFINE up == [metrics EXCEPT ![decision] = @ + 1]
  <2>3. metrics' = IF Recorded(Head(todo).kind) THEN up ELSE metrics
    BY <1>1
  <2> HIDE DEF up
  <2> QED
    BY <2>1, <2>2, <2>3 DEF up
<1>6. /\ Tail(todo) \in Seq(StreamSteps)
      /\ Tail(todo) # <<>> => Head(Tail(todo)).kind # "case"
  BY <1>2, OneStepOff DEF LeftOver
<1>7. stream'[t].todo = FollowUp(Head(todo), decision) \o Tail(todo)
  <2> DEFINE rest == FollowUp(Head(todo), decision) \o Tail(todo)
  <2>1. stream' = [stream EXCEPT ![t].todo = rest]
    BY <1>1 DEF Written
  <2>2. stream \in [Tabs -> [running : BOOLEAN, todo : Seq(StreamSteps)]]
    BY <1>2 DEF ConsoleTypes
  <2> HIDE DEF rest
  <2>3. stream'[t].todo = rest
    BY <2>1, <2>2
  <2> QED
    BY <2>3 DEF rest
<1> HIDE DEF todo
<1>8. t \notin Opening /\ Opening' \subseteq Opening \cup {t}
      /\ (t \in Opening' => decision = "DECLINE" /\ Recorded(Head(todo).kind))
  <2>1. \A u \in Tabs \ {t} : stream'[u] = stream[u]
    BY <1>2, StreamGoesOn
  <2>2. t \in Opening' => decision = "DECLINE" /\ Recorded(Head(todo).kind)
    BY <1>6, <1>7, CaseFollowsDecline DEF Opening
  <2> QED
    BY <1>2, <2>1, <2>2 DEF Opening, todo
<1>9. ~mixed => cases + Cardinality(Opening') <= metrics'["DECLINE"]
  <2>1. /\ Cardinality(Opening) \in Nat /\ cases \in Nat /\ metrics["DECLINE"] \in Nat
        /\ ~mixed => cases + Cardinality(Opening) <= metrics["DECLINE"]
    BY OpeningIs DEF CaseInv, Counted
  <2>2. CASE t \in Opening'
    <3>1. IsFiniteSet(Opening \cup {t}) /\ Cardinality(Opening \cup {t}) = Cardinality(Opening) + 1
      BY <1>8, OpeningIs, FS_AddElement
    <3>2. Cardinality(Opening') \in Nat /\ Cardinality(Opening') <= Cardinality(Opening) + 1
      BY <1>8, <3>1, FS_Subset, FS_CardinalityType
    <3> QED
      BY <1>5, <1>8, <2>1, <2>2, <3>2
  <2>3. CASE t \notin Opening'
    <3>1. Opening' \in SUBSET Opening
      BY <1>8, <2>3
    <3>2. Cardinality(Opening') \in Nat /\ Cardinality(Opening') <= Cardinality(Opening)
      BY <3>1, OpeningIs
    <3> QED
      BY <1>5, <2>1, <3>2
  <2> QED
    BY <2>2, <2>3
<1> QED
  BY <1>2, <1>3, <1>4, <1>5, <1>9 DEF CaseInv

LEMMA OpenCaseKeepsCases ==
  ASSUME CaseInv, NEW t \in Tabs, OpenCase(t)
  PROVE  CaseInv'
<1>1. /\ stream[t].running /\ stream[t].todo # <<>> /\ Head(stream[t].todo).kind = "case"
      /\ cases' \in {cases, cases + 1} /\ stream' = [stream EXCEPT ![t].todo = Tail(@)]
      /\ UNCHANGED <<page, metrics, last, cleared, clear, graph, mixed, raced, counts>>
      /\ StreamStep(t) /\ ConsoleTypes /\ LeftOver(stream[t].todo)
  BY DEF OpenCase, StreamStep, CaseInv, ConsoleTypes
<1>2. ConsoleTypes' /\ \A u \in Tabs \ {t} : stream'[u] = stream[u]
  BY <1>1, StreamGoesOn DEF ConsoleTypes
<1>3. t \in Opening /\ Opening' \subseteq Opening \ {t}
  <2>1. stream'[t].todo = Tail(stream[t].todo)
    BY <1>1 DEF ConsoleTypes
  <2>2. t \notin Opening'
    BY <1>1, <2>1, OneStepOff DEF Opening
  <2> QED
    BY <1>1, <1>2, <2>2 DEF Opening
<1>4. Cardinality(Opening') \in Nat /\ Cardinality(Opening') <= Cardinality(Opening) - 1
  <2>1. IsFiniteSet(Opening \ {t}) /\ Cardinality(Opening \ {t}) = Cardinality(Opening) - 1
    BY <1>3, OpeningIs, FS_RemoveElement
  <2> QED
    BY <1>3, <2>1, FS_Subset, FS_CardinalityType
<1>5. cases' \in Nat /\ (~mixed => cases' + Cardinality(Opening') <= metrics["DECLINE"])
  <2>1. /\ Cardinality(Opening) \in Nat /\ cases \in Nat /\ metrics["DECLINE"] \in Nat
        /\ ~mixed => cases + Cardinality(Opening) <= metrics["DECLINE"]
    BY OpeningIs DEF CaseInv, Counted
  <2> QED
    BY <1>1, <1>4, <2>1
<1>6. PageTypes'
  BY <1>1 DEF CaseInv, PageTypes
<1> QED
  BY <1>1, <1>2, <1>5, <1>6 DEF CaseInv

\* Any other step of a stream opens no case and counts no fewer declines.
LEMMA StreamKeepsCases ==
  ASSUME CaseInv, NEW t \in Tabs, StartStream(t) \/ Synthesize(t) \/ EndStream(t) \/ Record(t)
  PROVE  CaseInv'
<1>1. StreamStep(t) /\ ConsoleTypes /\ LeftOver(stream[t].todo) /\ UNCHANGED <<page, cases>>
      /\ (mixed' \/ mixed' = mixed)
  BY DEF StreamStep, CaseInv, ConsoleTypes, StartStream, Synthesize, EndStream, Record
<1>2. ConsoleTypes'
  <2>1. counts' \in [runs : [Tabs -> Nat], clears : Nat]
    <3>1. counts \in [runs : [Tabs -> Nat], clears : Nat]
      BY <1>1 DEF ConsoleTypes
    <3>2. CASE StartStream(t)
      <4>1. counts' = [counts EXCEPT !.runs[t] = @ + 1] /\ counts.runs[t] \in Nat
        BY <3>1, <3>2 DEF StartStream
      <4> QED
        BY <3>1, <4>1
    <3>3. CASE Synthesize(t) \/ EndStream(t) \/ Record(t)
      BY <3>1, <3>3 DEF Synthesize, EndStream, Record
    <3> QED
      BY <3>2, <3>3
  <2>2. last' \in {"none", "ring"} /\ cleared' \in BOOLEAN /\ raced' \in BOOLEAN
        /\ UNCHANGED <<clear, graph>>
    BY <1>1 DEF StartStream, Synthesize, EndStream, Record, ConsoleTypes
  <2> QED
    BY <1>1, <2>1, <2>2, StreamGoesOn DEF ConsoleTypes
<1>3. PageTypes'
  BY <1>1 DEF CaseInv, PageTypes
<1>4. CASE Synthesize(t)
  <2>1. metrics' = [metrics EXCEPT !["APPROVE"] = @ + 82, !["SCA"] = @ + 13, !["DECLINE"] = @ + 5]
        /\ mixed'
    BY <1>4 DEF Synthesize
  <2>2. metrics' \in [Counted -> Nat]
    BY <2>1 DEF CaseInv, Counted
  <2> QED
    BY <1>1, <1>2, <1>3, <2>1, <2>2 DEF CaseInv
<1>5. CASE StartStream(t) \/ EndStream(t) \/ Record(t)
  <2>1. UNCHANGED <<metrics, mixed>>
    BY <1>5 DEF StartStream, EndStream, Record
  <2>2. t \notin Opening'
    <3>1. CASE StartStream(t)
      <4>1. PICK action \in Offered[t] :
              stream' = [stream EXCEPT ![t] = [running |-> TRUE, todo |-> RunnerOf(action)]]
        BY <3>1 DEF StartStream
      <4>2. WellMade(RunnerOf(action)) /\ stream'[t].todo = RunnerOf(action)
        BY <1>1, <4>1, RunnersMade, ConsoleAssumption DEF ConsoleTypes
      <4> DEFINE made == RunnerOf(action)
      <4> HIDE DEF made
      <4>3. made # <<>> => 1 \in 1 .. Len(made) /\ Head(made) = made[1]
        BY <4>2 DEF WellMade, made
      <4> QED
        BY <4>2, <4>3 DEF WellMade, made, Opening
    <3>2. CASE EndStream(t)
      BY <1>1, <3>2 DEF EndStream, Idle, Opening, ConsoleTypes
    <3>3. CASE Record(t)
      <4>1. stream'[t].todo = Tail(stream[t].todo) /\ stream[t].todo # <<>>
        BY <1>1, <3>3 DEF Record, ConsoleTypes
      <4> QED
        BY <1>1, <4>1, OneStepOff DEF Opening
    <3> QED
      BY <1>5, <3>1, <3>2, <3>3
  <2>3. Opening' \in SUBSET Opening
    BY <1>1, <2>2, StreamGoesOn DEF Opening
  <2>4. Cardinality(Opening') \in Nat /\ Cardinality(Opening') <= Cardinality(Opening)
    BY <2>3, OpeningIs
  <2>5. ~mixed => cases + Cardinality(Opening') <= metrics["DECLINE"]
    <3>1. /\ Cardinality(Opening) \in Nat /\ cases \in Nat /\ metrics["DECLINE"] \in Nat
          /\ ~mixed => cases + Cardinality(Opening) <= metrics["DECLINE"]
      BY OpeningIs DEF CaseInv, Counted
    <3> QED
      BY <2>4, <3>1
  <2> QED
    BY <1>1, <1>2, <1>3, <2>1, <2>5 DEF CaseInv
<1> QED
  BY <1>4, <1>5

\* Clicks on Clear, their requests, and tabs that are closed.
LEMMA ClearKeepsCases ==
  ASSUME CaseInv, NEW t \in Tabs, CloseTab(t) \/ ClickClear(t) \/ ResetMetrics(t)
  PROVE  CaseInv'
<1>1. ConsoleTypes /\ page \in [Tabs -> [open : BOOLEAN, total : Nat]] /\ UNCHANGED stream
  BY DEF CaseInv, PageTypes, CloseTab, ClickClear, ResetMetrics
<1>2. Opening' = Opening
  BY <1>1 DEF Opening
<1>3. CASE CloseTab(t)
  <2> DEFINE shut == [Fresh EXCEPT !.open = FALSE]
  <2>1. page' = [page EXCEPT ![t] = shut] /\ mixed'
        /\ UNCHANGED <<metrics, cases, last, cleared, clear, graph, raced, counts>>
    BY <1>3 DEF CloseTab
  <2>2. shut \in [open : BOOLEAN, total : Nat] /\ shut.total = 0
    <3>1. Fresh \in [open : BOOLEAN, total : Nat] /\ Fresh.total = 0
      BY DEF Fresh
    <3> QED
      BY <3>1
  <2> HIDE DEF shut
  <2>3. PageTypes'
    BY <1>1, <2>1, <2>2 DEF PageTypes, CaseInv
  <2>4. ConsoleTypes'
    BY <1>1, <2>1 DEF ConsoleTypes
  <2> QED
    BY <2>1, <2>3, <2>4 DEF CaseInv
<1>4. CASE ClickClear(t)
  <2>1. /\ page' = [page EXCEPT ![t].total = 0] /\ clear' = [clear EXCEPT ![t] = "sent"]
        /\ counts' = [counts EXCEPT !.clears = @ + 1]
        /\ UNCHANGED <<metrics, cases, last, cleared, graph, raced>> /\ (mixed => mixed')
    BY <1>4 DEF ClickClear
  <2>2. PageTypes'
    BY <1>1, <2>1 DEF PageTypes, CaseInv
  <2>3. counts' \in [runs : [Tabs -> Nat], clears : Nat]
    <3>1. counts \in [runs : [Tabs -> Nat], clears : Nat]
      BY <1>1 DEF ConsoleTypes
    <3> DEFINE clears == counts.clears + 1
    <3>2. clears \in Nat /\ counts' = [counts EXCEPT !.clears = clears]
      BY <2>1, <3>1
    <3> HIDE DEF clears
    <3> QED
      BY <3>1, <3>2
  <2>4. ConsoleTypes'
    BY <1>1, <2>1, <2>3 DEF ConsoleTypes
  <2> QED
    BY <1>2, <2>1, <2>2, <2>4 DEF CaseInv
<1>5. CASE ResetMetrics(t)
  <2>1. /\ metrics' = Zero /\ cases' = 0 /\ clear' = [clear EXCEPT ![t] = "metrics"]
        /\ UNCHANGED <<page, last, cleared, graph, counts>> /\ raced' = (raced \/ Recording)
        /\ ((\E u \in Tabs : stream[u].running) => mixed')
    BY <1>5 DEF ResetMetrics
  <2>2. ConsoleTypes'
    BY <1>1, <2>1 DEF ConsoleTypes
  <2>3. PageTypes'
    BY <2>1 DEF CaseInv, PageTypes
  <2>4. ~mixed' => Opening' = {}
    BY <1>2, <2>1 DEF Opening
  <2>5. metrics' \in [Counted -> Nat] /\ metrics'["DECLINE"] = 0
    BY <2>1 DEF Zero, Counted
  <2>6. ~mixed' => Cardinality(Opening') = 0
    BY <2>4, FS_EmptySet
  <2> QED
    BY <2>1, <2>2, <2>3, <2>5, <2>6 DEF CaseInv
<1> QED
  BY <1>3, <1>4, <1>5

\* The steps that count nothing.
LEMMA OthersKeepCases ==
  ASSUME CaseInv, ConsoleTypes', UNCHANGED <<stream, page, metrics, cases, mixed>>
  PROVE  CaseInv'
BY DEF CaseInv, PageTypes, Opening

LEMMA CaseStep == GraphInv /\ CaseInv /\ (ConsoleNext \/ UNCHANGED consoleOnly) => CaseInv'
<1> SUFFICES ASSUME GraphInv, CaseInv, ConsoleNext \/ UNCHANGED consoleOnly PROVE CaseInv'
  OBVIOUS
<1>1. ConsoleTypes'
  BY GraphStep DEF GraphInv
<1>2. ASSUME NEW t \in Tabs, ResetInjection(t) \/ ResetGraph(t) PROVE CaseInv'
  BY <1>1, <1>2, OthersKeepCases DEF ResetInjection, ResetGraph
<1>3. GraphAsked \/ GraphAnswered \/ UNCHANGED consoleOnly => CaseInv'
  BY <1>1, OthersKeepCases DEF GraphAsked, GraphAnswered, consoleOnly
<1> QED
  BY <1>2, <1>3, EmitKeepsCases, OpenCaseKeepsCases, StreamKeepsCases, ClearKeepsCases
  DEF ConsoleNext
-----------------------------------------------------------------------------
(* What the pages and the operations view count, and what they show. *)
\* Every outcome that is shown of a step that counts is one of those counted.
LEMMA ShownIsCounted ==
  ASSUME NEW step \in StreamSteps, step.kind \in {"tx", "tx_agg", "score", "scenario", "recovered"},
         NEW decision \in Shown(step)
  PROVE  decision \in Counted
<1>1. \A f, score : Answer(f, score).decision \in Counted
  BY DEF Answer, Decide, Counted
<1>2. \A s, j : Evaluate(s, j).decision \in Counted
  BY DEF Evaluate, PortDecide, Counted
<1>3. \A profile : LiveOutcomes(profile) \subseteq Counted
  BY <1>1 DEF LiveOutcomes, Answers, Counted
<1>4. CASE step.kind = "scenario"
  BY <1>2, <1>4 DEF Shown
<1>5. CASE step.kind = "recovered"
  BY <1>5 DEF Shown, Counted
<1>6. CASE step.kind \in {"tx", "tx_agg", "score"}
  BY <1>3, <1>6 DEF Shown
<1> QED
  BY <1>4, <1>5, <1>6

Paged == [t \in Tabs |-> page[t].total]

\* While nothing was mixed: no tab is closed, and the tabs have counted what was recorded, but
\* between a click on Clear and its request.
PageInv ==
  ~mixed => /\ \A t \in Tabs : page[t].open
            /\ \/ \E t \in Tabs : clear[t] = "sent"
               \/ SumFunction(Paged) = SumFunction(metrics)

LEMMA CountedAreFinite == IsFiniteSet(Counted)
<1>1. IsFiniteSet({}) /\ \A S, x : IsFiniteSet(S) => IsFiniteSet(S \cup {x})
  BY FS_EmptySet, FS_AddElement
<1>2. IsFiniteSet(((({} \cup {"APPROVE"}) \cup {"SCA"}) \cup {"DECLINE"}) \cup {"ERROR"})
  BY <1>1, Zenon
<1>3. Counted = (((({} \cup {"APPROVE"}) \cup {"SCA"}) \cup {"DECLINE"}) \cup {"ERROR"})
  BY DEF Counted
<1> QED
  BY <1>2, <1>3

LEMMA PageStart == ConsoleInit => PageInv
<1> SUFFICES ASSUME ConsoleInit PROVE PageInv
  OBVIOUS
<1>1. /\ \A t \in Tabs : page[t].open /\ page[t].total = 0
      /\ metrics = Zero
  BY DEF ConsoleInit, Fresh
<1>2. SumFunction(Paged) = 0
  <2>1. DOMAIN Paged = Tabs /\ \A t \in Tabs : Paged[t] = 0
    BY <1>1 DEF Paged
  <2> QED
    BY <2>1, ConsoleAssumption, SumOfZeros DEF SumFunction
<1>3. SumFunction(metrics) = 0
  <2>1. DOMAIN metrics = Counted /\ \A d \in Counted : metrics[d] = 0
    BY <1>1 DEF Zero
  <2> QED
    BY <2>1, CountedAreFinite, SumOfZeros DEF SumFunction
<1> QED
  BY <1>1, <1>2, <1>3 DEF PageInv

LEMMA EmitKeepsPage ==
  ASSUME CaseInv, PageInv, NEW t \in Tabs, Emit(t)
  PROVE  PageInv'
<1> DEFINE step == Head(stream[t].todo)
<1>1. PICK decision \in Shown(step) :
        /\ metrics' = IF Recorded(step.kind) THEN [metrics EXCEPT ![decision] = @ + 1]
                      ELSE metrics
        /\ Written(t, step, decision)
  BY DEF Emit
<1>2. /\ UNCHANGED <<clear, mixed>> /\ step \notin {} /\ stream[t].todo # <<>>
      /\ step.kind \notin {"synthetic", "case", "record", "uncleared"}
  BY DEF Emit
<1>3. step \in StreamSteps
  BY <1>2, OneStepOff DEF CaseInv, ConsoleTypes
<1> HIDE DEF step
<1> SUFFICES ASSUME ~mixed PROVE PageInv'
  BY <1>2 DEF PageInv
<1>4. page \in [Tabs -> [open : BOOLEAN, total : Nat]] /\ metrics \in [Counted -> Nat]
      /\ \A u \in Tabs : page[u].open
  BY DEF CaseInv, PageTypes, PageInv
<1>5. page' = [page EXCEPT ![t].total = @ + IF step.kind = "probe" \/ ~page[t].open THEN 0 ELSE 1]
  BY <1>1 DEF Written
<1>6. \A u \in Tabs : page'[u].open
  BY <1>4, <1>5
<1>7. CASE step.kind = "probe"
  <2> DEFINE total == page[t].total
  <2>1. page' = [page EXCEPT ![t].total = total]
    <3>1. page[t].total + 0 = total
      BY <1>4
    <3> QED
      BY <1>5, <1>7, <3>1
  <2>2. \A u \in Tabs : page'[u].total = page[u].total
    BY <1>4, <2>1
  <2>3. Paged' = Paged
    BY <2>2 DEF Paged
  <2>4. metrics' = metrics
    BY <1>1, <1>7 DEF Recorded
  <2> QED
    BY <1>2, <1>6, <2>3, <2>4 DEF PageInv
<1>8. CASE step.kind # "probe"
  <2>1. step.kind \in {"tx", "tx_agg", "score", "scenario", "recovered"} /\ Recorded(step.kind)
    BY <1>2, <1>3, <1>8 DEF StreamSteps, StepKinds, Recorded
  <2>2. decision \in Counted
    BY <1>1, <1>3, <2>1, ShownIsCounted
  <2> DEFINE n == metrics[decision] + 1
  <2>3. metrics' = [metrics EXCEPT ![decision] = n] /\ n \in Nat
    <3>1. metrics[decision] \in Nat
      BY <1>4, <2>2
    <3>2. metrics' = [metrics EXCEPT ![decision] = @ + 1]
      BY <1>1, <2>1
    <3> QED
      BY <3>1, <3>2
  <2> DEFINE total == page[t].total + 1
  <2>4. page' = [page EXCEPT ![t].total = total] /\ total \in Nat
    <3>1. page[t].total \in Nat /\ page[t].open
      BY <1>4
    <3> DEFINE more == IF step.kind = "probe" \/ ~page[t].open THEN 0 ELSE 1
    <3>2. more = 1
      BY <1>8, <3>1
    <3>3. page' = [page EXCEPT ![t].total = @ + more]
      BY <1>5
    <3> HIDE DEF more
    <3>4. page' = [page EXCEPT ![t].total = @ + 1]
      BY <3>2, <3>3
    <3> QED
      BY <3>1, <3>4
  <2>5. SumFunction(metrics') = SumFunction(metrics) + 1
    <3> HIDE DEF n
    <3>1. metrics' \in [Counted -> Nat] /\ metrics'[decision] = n
          /\ \A d \in Counted \ {decision} : metrics'[d] = metrics[d]
      BY <1>4, <2>2, <2>3
    <3>2. metrics'[decision] = metrics[decision] + 1
      BY <3>1 DEF n
    <3> DEFINE m == metrics'
    <3>3. /\ m \in [Counted -> Nat] /\ m[decision] = metrics[decision] + 1
          /\ \A d \in Counted \ {decision} : m[d] = metrics[d]
      BY <3>1, <3>2
    <3> HIDE DEF m
    <3>4. SumFunction(m) = SumFunction(metrics) + 1
      BY <1>4, <2>2, <3>3, CountedAreFinite, OneMore
    <3> QED
      BY <3>4 DEF m
  <2>6. SumFunction(Paged') = SumFunction(Paged) + 1
    <3> HIDE DEF total
    <3>1. page' \in [Tabs -> [open : BOOLEAN, total : Nat]] /\ page'[t].total = total
          /\ \A u \in Tabs \ {t} : page'[u].total = page[u].total
      BY <1>4, <2>4
    <3> DEFINE m == Paged'
    <3>2. Paged \in [Tabs -> Nat] /\ \A u \in Tabs : Paged[u] = page[u].total
      BY <1>4 DEF Paged
    <3>3. m \in [Tabs -> Nat] /\ \A u \in Tabs : m[u] = page'[u].total
      BY <3>1 DEF Paged
    <3>4. m[t] = Paged[t] + 1
      BY <3>1, <3>2, <3>3 DEF total
    <3>5. \A u \in Tabs \ {t} : m[u] = Paged[u]
      BY <3>1, <3>2, <3>3
    <3> HIDE DEF m
    <3>6. SumFunction(m) = SumFunction(Paged) + 1
      BY <3>2, <3>3, <3>4, <3>5, ConsoleAssumption, OneMore
    <3> QED
      BY <3>6 DEF m
  <2>7. SumFunction(Paged') = SumFunction(Paged)'
    OBVIOUS
  <2>8. SumFunction(metrics') = SumFunction(metrics)'
    OBVIOUS
  <2> QED
    BY <1>2, <1>6, <2>5, <2>6, <2>7, <2>8 DEF PageInv
<1> QED
  BY <1>7, <1>8

\* Of the clicks and their requests: a click that is mixed with nothing leaves a request to come,
\* and the request finds nothing counted since.
LEMMA ClearKeepsPage ==
  ASSUME CaseInv, PageInv, NEW t \in Tabs, ClickClear(t) \/ ResetMetrics(t)
  PROVE  PageInv'
<1>1. /\ page \in [Tabs -> [open : BOOLEAN, total : Nat]]
      /\ clear \in [Tabs -> {"idle", "sent", "metrics", "graph"}]
  BY DEF CaseInv, ConsoleTypes, PageTypes
<1>2. CASE ClickClear(t)
  <2>1. /\ page' = [page EXCEPT ![t].total = 0] /\ clear' = [clear EXCEPT ![t] = "sent"]
        /\ mixed => mixed'
    BY <1>2 DEF ClickClear
  <2>2. clear'[t] = "sent" /\ \A u \in Tabs : page'[u].open = page[u].open
    BY <1>1, <2>1
  <2> QED
    BY <2>1, <2>2 DEF PageInv
<1>3. CASE ResetMetrics(t)
  <2>1. /\ metrics' = Zero /\ page' = page /\ (mixed => mixed')
        /\ (\E u \in Tabs : page[u].total > 0) => mixed'
    BY <1>3 DEF ResetMetrics
  <2>2. SumFunction(metrics') = 0
    <3> DEFINE m == metrics'
    <3>1. DOMAIN m = Counted /\ \A d \in Counted : m[d] = 0
      BY <2>1 DEF Zero
    <3> HIDE DEF m
    <3>2. SumFunction(m) = 0
      BY <3>1, CountedAreFinite, SumOfZeros DEF SumFunction
    <3> QED
      BY <3>2 DEF m
  <2>3. ~mixed' => SumFunction(Paged) = 0
    <3>1. DOMAIN Paged = Tabs /\ \A u \in Tabs : Paged[u] = page[u].total
      BY DEF Paged
    <3>2. ~mixed' => \A u \in Tabs : Paged[u] = 0
      BY <1>1, <2>1, <3>1
    <3> QED
      BY <3>1, <3>2, ConsoleAssumption, SumOfZeros DEF SumFunction
  <2>4. Paged' = Paged
    BY <2>1 DEF Paged
  <2> QED
    BY <2>1, <2>2, <2>3, <2>4 DEF PageInv
<1> QED
  BY <1>2, <1>3

LEMMA PageStep == CaseInv /\ PageInv /\ (ConsoleNext \/ UNCHANGED consoleOnly) => PageInv'
<1> SUFFICES ASSUME CaseInv, PageInv, ConsoleNext \/ UNCHANGED consoleOnly PROVE PageInv'
  OBVIOUS
<1>1. ASSUME UNCHANGED <<page, metrics, clear, mixed>> PROVE PageInv'
  BY <1>1 DEF PageInv, Paged
<1>2. ASSUME NEW t \in Tabs, StartStream(t) \/ OpenCase(t) \/ Record(t) \/ EndStream(t)
      PROVE  PageInv'
  BY <1>1, <1>2 DEF StartStream, OpenCase, Record, EndStream
<1>3. ASSUME NEW t \in Tabs, Synthesize(t) \/ CloseTab(t) PROVE PageInv'
  BY <1>3 DEF Synthesize, CloseTab, PageInv
<1>4. ASSUME NEW t \in Tabs, ResetInjection(t) \/ ResetGraph(t) PROVE PageInv'
  <2>1. /\ UNCHANGED <<page, metrics, mixed>> /\ clear[t] # "sent"
        /\ \A u \in Tabs \ {t} : clear'[u] = clear[u]
    BY <1>4 DEF ResetInjection, ResetGraph, CaseInv, ConsoleTypes
  <2>2. (\E u \in Tabs : clear[u] = "sent") => \E u \in Tabs : clear'[u] = "sent"
    BY <2>1
  <2>3. Paged' = Paged
    BY <2>1 DEF Paged
  <2> QED
    BY <2>1, <2>2, <2>3 DEF PageInv
<1>5. GraphAsked \/ GraphAnswered \/ UNCHANGED consoleOnly => PageInv'
  BY <1>1 DEF GraphAsked, GraphAnswered, consoleOnly
<1> QED
  BY <1>2, <1>3, <1>4, <1>5, EmitKeepsPage, ClearKeepsPage DEF ConsoleNext

\* What is left of a runner names scenarios there are.
LEMMA ScenariosAgree == ConsoleTypes => ScenariosAsProduced
<1> SUFFICES ASSUME ConsoleTypes, NEW t \in Tabs, stream[t].todo # <<>>,
                    Head(stream[t].todo).kind = "scenario", NEW j \in Jitters
             PROVE  LET s == Scenarios[Head(stream[t].todo).of]
                        shown == Evaluate(s, j)
                        produced == Answer(s.f, StubScore(s.f, j))
                    IN /\ shown.decision = s.promised /\ shown.exemption = s.exemption
                       /\ shown.decision = produced.decision
                       /\ shown.exemption = produced.exemption
  BY DEF ScenariosAsProduced
<1> DEFINE i == Head(stream[t].todo).of
           s == Scenarios[i]
<1>1. i \in 1 .. 6
  <2>1. Head(stream[t].todo) \in StreamSteps
    BY OneStepOff DEF ConsoleTypes
  <2> QED
    BY <2>1 DEF StreamSteps, StepKinds
<1>2. j \in 0 .. MaxJitter /\ DOMAIN Scenarios = 1 .. 6
  BY DEF Jitters, MaxJitter, Scenarios
<1> HIDE DEF i
<1>3. /\ s.f \in FeatureSet /\ s.f.card.found /\ s.f.merchant.found
      /\ s.f.amount <= 30 => s.spent = s.f.agg.spent /\ s.count = s.f.agg.count
      /\ Evaluate(s, j).decision = s.promised /\ Evaluate(s, j).exemption = s.exemption
  BY <1>1, <1>2, ScenariosDecide
<1> HIDE DEF s
<1>4. /\ Evaluate(s, j).decision = Answer(s.f, StubScore(s.f, j)).decision
      /\ Evaluate(s, j).exemption = Answer(s.f, StubScore(s.f, j)).exemption
  BY <1>3, PortIsExact
<1> QED
  BY <1>3, <1>4 DEF s, i

LEMMA TruthIsTold == CaseInv /\ PageInv => ConsoleTellsTheTruth
<1> SUFFICES ASSUME CaseInv, PageInv PROVE ConsoleTellsTheTruth
  OBVIOUS
<1>1. PageAgreesWithOps
  BY DEF PageInv, PageAgreesWithOps, Paged
<1>2. CasesAreDeclined
  <2>1. /\ Cardinality(Opening) \in Nat /\ cases \in Nat /\ metrics["DECLINE"] \in Nat
        /\ ~mixed => cases + Cardinality(Opening) <= metrics["DECLINE"]
    BY OpeningIs DEF CaseInv, Counted
  <2> QED
    BY <2>1 DEF CasesAreDeclined
<1> QED
  BY <1>1, <1>2, ScenariosAgree, SeedsDecideAsTold DEF ConsoleTellsTheTruth, CaseInv
-----------------------------------------------------------------------------
(* The load generator. *)
Items == {"transaction", "none"}
Results ==
  [sent : Nat, ok : Nat, failed : Nat, latencies : Nat, statuses : Nat, decisions : Nat,
   errors : Nat]
Early == {"idle", "producing", "joining"}
Ended == {"gathered", "exit 0", "exit 2"}
Posting == {w \in Workers : worker[w] = "posting"}
Gone == {w \in Workers : worker[w] = "gone"}

SimTypes ==
  /\ phase \in Early \cup Ended \cup {"stopping", "interrupted"}
  /\ queue \in Seq(Items) /\ Len(queue) <= Room
  /\ pending \in Nat
  /\ worker \in [Workers -> {"idle", "posting", "gone"}]
  /\ stops \in 0 .. Cardinality(Workers)
  /\ result \in Results

\* A sequence of one kind of item only.
OfOneKind(items, item) == \A i \in 1 .. Len(items) : items[i] = item

\* What the workers have counted.
Counts(r) ==
  /\ r.latencies = r.ok + r.failed /\ r.decisions = r.ok
  /\ r.ok <= r.statuses /\ r.statuses <= r.latencies
  /\ r.errors = IF r.latencies - r.statuses <= MaxErrors THEN r.latencies - r.statuses ELSE MaxErrors

\* The inductive invariant: what was sent has been counted, is in the queue, or with a worker;
\* once the queue has been joined only Nones are put, one for each worker there is.
SimInv ==
  /\ SimTypes
  /\ Counts(result)
  /\ \E item \in Items : OfOneKind(queue, item)
  /\ phase \in Early =>
       /\ Gone = {} /\ OfOneKind(queue, "transaction")
       /\ pending = Len(queue) + Cardinality(Posting)
       /\ result.sent = result.latencies + pending
  /\ phase = "stopping" =>
       /\ Posting = {} /\ OfOneKind(queue, "none") /\ pending = Len(queue)
       /\ Cardinality(Gone) + Len(queue) + stops = Cardinality(Workers)
       /\ result.sent = result.latencies
  /\ phase \in Ended =>
       /\ worker = [w \in Workers |-> "gone"] /\ queue = <<>>
       /\ result.sent = result.latencies
  /\ phase = "interrupted" => worker = [w \in Workers |-> "gone"]
  /\ phase \in {"exit 0", "exit 2"} => report = Summary(result)

LEMMA RoomIs == Room \in Nat /\ Cardinality(Workers) \in Nat
<1>1. Cardinality(Workers) \in Nat
  BY SimAssumption, FS_CardinalityType
<1>2. \A m, n \in Nat : m * n \in Nat
  OBVIOUS
<1> QED
  BY <1>1, <1>2, SimAssumption DEF Room

LEMMA SimStart == SimInit => SimInv
<1> SUFFICES ASSUME SimInit PROVE SimInv
  OBVIOUS
<1>1. Posting = {} /\ Gone = {}
  BY DEF SimInit, Posting, Gone
<1>2. queue = <<>> /\ queue \in Seq(Items) /\ Len(queue) = 0 /\ pending = 0
  BY DEF SimInit
<1>3. Cardinality(Posting) = 0
  BY <1>1, FS_EmptySet
<1>4. result \in Results /\ result.sent = 0 /\ result.latencies = 0 /\ Counts(result)
  BY SimAssumption DEF SimInit, NoResult, Results, Counts
<1>5. SimTypes
  BY <1>2, <1>4, RoomIs DEF SimInit, SimTypes, Early
<1> QED
  BY <1>1, <1>2, <1>3, <1>4, <1>5 DEF SimInit, SimInv, OfOneKind, Early, Ended, Items

\* An item at the end.
LEMMA PutKeeps ==
  ASSUME SimTypes, NEW item \in Items, Put(item), OfOneKind(queue, item)
  PROVE  /\ queue' \in Seq(Items) /\ Len(queue') = Len(queue) + 1 /\ Len(queue') <= Room
         /\ OfOneKind(queue', item) /\ pending' = pending + 1 /\ pending' \in Nat
<1>1. queue \in Seq(Items) /\ Len(queue) < Room /\ queue' = Append(queue, item) /\ pending \in Nat
      /\ pending' = pending + 1
  BY DEF SimTypes, Put
<1>2. Len(queue) \in Nat /\ Len(queue') = Len(queue) + 1 /\ queue' \in Seq(Items)
      /\ \A i \in 1 .. Len(queue) + 1 : queue'[i] = IF i <= Len(queue) THEN queue[i] ELSE item
  BY <1>1
<1>3. OfOneKind(queue', item)
  BY <1>2 DEF OfOneKind
<1> QED
  BY <1>1, <1>2, <1>3, RoomIs

LEMMA ProduceKeeps == SimInv /\ Produce => SimInv'
<1> SUFFICES ASSUME SimInv, Produce PROVE SimInv'
  OBVIOUS
<1>1. /\ phase = "producing" /\ Put("transaction") /\ UNCHANGED <<phase, worker, stops, report>>
      /\ result' = [result EXCEPT !.sent = @ + 1] /\ result \in Results /\ SimTypes
      /\ OfOneKind(queue, "transaction")
      /\ pending = Len(queue) + Cardinality(Posting) /\ result.sent = result.latencies + pending
      /\ Gone = {}
  BY DEF Produce, SimInv, SimTypes, Early
<1>2. /\ queue' \in Seq(Items) /\ Len(queue') = Len(queue) + 1 /\ Len(queue') <= Room
      /\ OfOneKind(queue', "transaction") /\ pending' = pending + 1 /\ pending' \in Nat
  BY <1>1, PutKeeps DEF Items
<1>3. /\ result' \in Results /\ result'.sent = result.sent + 1
      /\ \A f \in {"ok", "failed", "latencies", "statuses", "decisions", "errors"} :
           result'[f] = result[f]
  <2>1. result.sent \in Nat
    BY <1>1 DEF Results
  <2> DEFINE sent == result.sent + 1
  <2>2. sent \in Nat /\ result' = [result EXCEPT !.sent = sent]
    BY <1>1, <2>1
  <2> HIDE DEF sent
  <2>3. result' \in Results /\ result'.sent = sent
        /\ \A f \in {"ok", "failed", "latencies", "statuses", "decisions", "errors"} :
             result'[f] = result[f]
    BY <1>1, <2>2 DEF Results
  <2> QED
    BY <2>3 DEF sent
<1>4. Posting' = Posting /\ Gone' = Gone
  BY <1>1 DEF Posting, Gone
<1>5. Counts(result)'
  BY <1>3 DEF Counts, SimInv
<1>6. SimTypes'
  BY <1>1, <1>2, <1>3 DEF SimTypes
<1>7. pending' = Len(queue') + Cardinality(Posting') /\ result'.sent = result'.latencies + pending'
  <2>1. Cardinality(Posting) \in Nat /\ Len(queue) \in Nat /\ result.latencies \in Nat
    <3>1. IsFiniteSet(Posting)
      BY SimAssumption, FS_Subset DEF Posting
    <3> QED
      BY <1>1, <3>1, FS_CardinalityType DEF SimTypes, Results
  <2>2. result'.latencies = result.latencies
    BY <1>3
  <2>3. Cardinality(Posting') = Cardinality(Posting)
    BY <1>4
  <2>4. /\ pending = Len(queue) + Cardinality(Posting) /\ result.sent = result.latencies + pending
        /\ Len(queue') = Len(queue) + 1 /\ pending' = pending + 1
        /\ result'.sent = result.sent + 1
    BY <1>1, <1>2, <1>3
  <2>5. pending' = Len(queue') + Cardinality(Posting')
    BY <2>1, <2>3, <2>4
  <2>6. result'.sent = result'.latencies + pending'
    BY <2>1, <2>2, <2>4
  <2> QED
    BY <2>5, <2>6
<1> QED
  BY <1>1, <1>2, <1>4, <1>5, <1>6, <1>7 DEF SimInv, Items, Early, Ended

LEMMA FewerThanWorkers ==
  ASSUME NEW S \in SUBSET Workers
  PROVE  IsFiniteSet(S) /\ Cardinality(S) \in 0 .. Cardinality(Workers)
<1>1. IsFiniteSet(S) /\ Cardinality(S) <= Cardinality(Workers)
  BY SimAssumption, FS_Subset
<1> QED
  BY <1>1, FS_CardinalityType, RoomIs

\* The main task goes from one phase to the next.
LEMMA PhasesKeep ==
  ASSUME SimInv, StartRun \/ DeadlinePasses \/ Joined \/ Gathered \/ WriteReport \/ Interrupt
  PROVE  SimInv'
<1>1. SimTypes /\ UNCHANGED <<queue, pending, result>>
  BY DEF SimInv, StartRun, DeadlinePasses, Joined, Gathered, WriteReport, Interrupt
<1>2. Counts(result)' /\ \E item \in Items : OfOneKind(queue', item)
  BY <1>1 DEF SimInv, Counts
<1>3. CASE StartRun \/ DeadlinePasses
  <2>1. /\ phase \in Early /\ phase' \in Early
        /\ UNCHANGED <<worker, stops, report>>
    BY <1>3 DEF StartRun, DeadlinePasses, Early
  <2>2. SimTypes' /\ Posting' = Posting /\ Gone' = Gone
    BY <1>1, <2>1 DEF SimTypes, Posting, Gone
  <2> QED
    BY <1>1, <1>2, <2>1, <2>2 DEF SimInv, Early, Ended
<1>4. CASE Joined
  <2>1. /\ phase = "joining" /\ phase' = "stopping" /\ pending = 0 /\ stops' = Cardinality(Workers)
        /\ UNCHANGED <<worker, report>>
    BY <1>4 DEF Joined
  <2>2. /\ Gone = {} /\ pending = Len(queue) + Cardinality(Posting)
        /\ result.sent = result.latencies + pending
    BY <2>1 DEF SimInv, Early
  <2>3. /\ Len(queue) \in Nat /\ Cardinality(Posting) \in Nat /\ Cardinality(Workers) \in Nat
        /\ result.latencies \in Nat /\ IsFiniteSet(Posting)
    BY <1>1, RoomIs, FewerThanWorkers DEF SimTypes, Results, Posting
  <2>4. Len(queue) = 0 /\ Cardinality(Posting) = 0 /\ result.sent = result.latencies
    BY <2>1, <2>2, <2>3
  <2>5. Posting = {} /\ queue = <<>> /\ Cardinality(Gone) = 0
    BY <1>1, <2>2, <2>3, <2>4, FS_EmptySet DEF SimTypes
  <2>6. SimTypes' /\ Posting' = Posting /\ Gone' = Gone
    BY <1>1, <2>1, <2>3 DEF SimTypes, Posting, Gone
  <2>7. Cardinality(Gone') + Len(queue') + stops' = Cardinality(Workers)
    BY <1>1, <2>1, <2>3, <2>4, <2>5, <2>6
  <2> QED
    BY <1>1, <1>2, <2>1, <2>4, <2>5, <2>6, <2>7 DEF SimInv, Early, Ended, OfOneKind
<1>5. CASE Gathered
  <2>1. /\ phase = "stopping" /\ phase' = "gathered" /\ stops = 0
        /\ \A w \in Workers : worker[w] = "gone"
        /\ UNCHANGED <<worker, stops, report>>
    BY <1>5 DEF Gathered
  <2>2. /\ Cardinality(Gone) + Len(queue) + stops = Cardinality(Workers)
        /\ result.sent = result.latencies
    BY <2>1 DEF SimInv
  <2>3. Gone = Workers
    BY <2>1 DEF Gone
  <2>4. Len(queue) \in Nat /\ Cardinality(Workers) \in Nat
    BY <1>1, RoomIs DEF SimTypes
  <2>5. queue = <<>>
    <3>1. Len(queue) = 0
      BY <2>1, <2>2, <2>3, <2>4
    <3> QED
      BY <1>1, <3>1 DEF SimTypes
  <2>6. SimTypes'
    BY <1>1, <2>1 DEF SimTypes, Ended
  <2>7. worker = [w \in Workers |-> "gone"]
    BY <1>1, <2>1 DEF SimTypes
  <2> QED
    BY <1>1, <1>2, <2>1, <2>2, <2>5, <2>6, <2>7 DEF SimInv, Early, Ended
<1>6. CASE WriteReport
  <2>1. /\ phase = "gathered" /\ phase' \in {"exit 0", "exit 2"} /\ report' = Summary(result)
        /\ UNCHANGED <<worker, stops>>
    BY <1>6 DEF WriteReport
  <2>2. SimTypes'
    BY <1>1, <2>1 DEF SimTypes, Ended
  <2>3. Summary(result)' = Summary(result)
    BY <1>1 DEF Summary
  <2> QED
    BY <1>1, <1>2, <2>1, <2>2, <2>3 DEF SimInv, Early, Ended
<1>7. CASE Interrupt
  <2>1. phase' = "interrupted" /\ worker' = [w \in Workers |-> "gone"] /\ UNCHANGED <<stops, report>>
    BY <1>7 DEF Interrupt
  <2>2. SimTypes'
    BY <1>1, <2>1 DEF SimTypes
  <2> QED
    BY <1>1, <1>2, <2>1, <2>2 DEF SimInv, Early, Ended
<1> QED
  BY <1>3, <1>4, <1>5, <1>6, <1>7

LEMMA PutStopKeeps == SimInv /\ PutStop => SimInv'
<1> SUFFICES ASSUME SimInv, PutStop PROVE SimInv'
  OBVIOUS
<1>1. /\ phase = "stopping" /\ stops > 0 /\ Put("none") /\ stops' = stops - 1
      /\ UNCHANGED <<phase, worker, result, report>> /\ SimTypes
      /\ Posting = {} /\ OfOneKind(queue, "none") /\ pending = Len(queue)
      /\ Cardinality(Gone) + Len(queue) + stops = Cardinality(Workers)
  BY DEF PutStop, SimInv
<1>2. /\ queue' \in Seq(Items) /\ Len(queue') = Len(queue) + 1 /\ Len(queue') <= Room
      /\ OfOneKind(queue', "none") /\ pending' = pending + 1 /\ pending' \in Nat
  BY <1>1, PutKeeps DEF Items
<1>3. Posting' = Posting /\ Gone' = Gone
  BY <1>1 DEF Posting, Gone
<1>4. /\ Len(queue) \in Nat /\ Cardinality(Gone) \in Nat /\ Cardinality(Workers) \in Nat
      /\ stops \in 0 .. Cardinality(Workers)
  BY <1>1, RoomIs, FewerThanWorkers DEF SimTypes, Gone
<1>5. /\ pending' = Len(queue') /\ stops' \in 0 .. Cardinality(Workers)
      /\ Cardinality(Gone') + Len(queue') + stops' = Cardinality(Workers)
  BY <1>1, <1>2, <1>3, <1>4
<1>6. SimTypes'
  BY <1>1, <1>2, <1>5 DEF SimTypes
<1>7. Counts(result)'
  BY <1>1 DEF SimInv, Counts
<1> QED
  BY <1>1, <1>2, <1>3, <1>5, <1>6, <1>7 DEF SimInv, Items, Early, Ended

\* A worker takes an item.
LEMMA TakeKeeps ==
  ASSUME SimInv, NEW w \in Workers, Take(w)
  PROVE  SimInv'
<1>1. /\ worker[w] = "idle" /\ queue # <<>> /\ queue' = Tail(queue) /\ SimTypes
      /\ UNCHANGED <<phase, stops, result, report>>
      /\ queue \in Seq(Items) /\ worker \in [Workers -> {"idle", "posting", "gone"}]
      /\ pending \in Nat
  BY DEF Take, SimInv, SimTypes
<1>2. /\ Len(queue) \in Nat \ {0} /\ queue' \in Seq(Items) /\ Len(queue') = Len(queue) - 1
      /\ Head(queue) = queue[1] /\ \A i \in 1 .. Len(queue) - 1 : queue'[i] = queue[i + 1]
  BY <1>1
<1>3. \A item \in Items : OfOneKind(queue, item) => OfOneKind(queue', item) /\ Head(queue) = item
  BY <1>2 DEF OfOneKind
<1>4. phase \in Early \/ phase = "stopping"
  <2>1. phase \notin Ended /\ phase # "interrupted"
    BY <1>1 DEF SimInv
  <2> QED
    BY <1>1, <2>1 DEF SimTypes
<1>5. Counts(result)'
  BY <1>1 DEF SimInv, Counts
<1>6. /\ Cardinality(Posting) \in Nat /\ IsFiniteSet(Posting) /\ Cardinality(Gone) \in Nat
      /\ IsFiniteSet(Gone) /\ Room \in Nat /\ Cardinality(Workers) \in Nat
  BY FewerThanWorkers, RoomIs DEF Posting, Gone
<1>7. CASE phase \in Early
  <2>1. /\ Gone = {} /\ OfOneKind(queue, "transaction")
        /\ pending = Len(queue) + Cardinality(Posting) /\ result.sent = result.latencies + pending
    BY <1>7 DEF SimInv
  <2>2. Head(queue) # "none" /\ OfOneKind(queue', "transaction")
    BY <1>3, <2>1 DEF Items
  <2>3. worker' = [worker EXCEPT ![w] = "posting"] /\ UNCHANGED pending
    BY <2>2 DEF Take
  <2>4. Posting' = Posting \cup {w} /\ Gone' = Gone /\ w \notin Posting
    BY <1>1, <2>3 DEF Posting, Gone
  <2>5. Cardinality(Posting') = Cardinality(Posting) + 1
    BY <1>6, <2>4, FS_AddElement
  <2>6. pending' = Len(queue') + Cardinality(Posting')
    BY <1>2, <1>6, <2>1, <2>3, <2>5
  <2>7. SimTypes'
    BY <1>1, <1>2, <1>6, <2>3 DEF SimTypes
  <2> QED
    BY <1>1, <1>5, <1>7, <2>1, <2>2, <2>3, <2>4, <2>6, <2>7 DEF SimInv, Items, Early, Ended
<1>8. CASE phase = "stopping"
  <2>1. /\ Posting = {} /\ OfOneKind(queue, "none") /\ pending = Len(queue)
        /\ Cardinality(Gone) + Len(queue) + stops = Cardinality(Workers)
        /\ result.sent = result.latencies /\ stops \in Nat
    BY <1>1, <1>6, <1>8 DEF SimInv, SimTypes
  <2>2. Head(queue) = "none" /\ OfOneKind(queue', "none")
    BY <1>3, <2>1 DEF Items
  <2>3. worker' = [worker EXCEPT ![w] = "gone"] /\ pending' = pending - 1
    BY <2>2 DEF Take
  <2>4. Gone' = Gone \cup {w} /\ Posting' = {} /\ w \notin Gone
    BY <1>1, <2>1, <2>3 DEF Posting, Gone
  <2>5. Cardinality(Gone') = Cardinality(Gone) + 1
    BY <1>6, <2>4, FS_AddElement
  <2>6. /\ pending' = Len(queue') /\ pending' \in Nat
        /\ Cardinality(Gone') + Len(queue') + stops' = Cardinality(Workers)
    <3>1. /\ pending = Len(queue) /\ pending' = pending - 1 /\ Len(queue') = Len(queue) - 1
          /\ Len(queue) \in Nat \ {0} /\ stops' = stops
      BY <1>1, <1>2, <2>1, <2>3
    <3>2. pending' = Len(queue') /\ pending' \in Nat
      BY <3>1
    <3>3. Cardinality(Gone') + Len(queue') + stops' = Cardinality(Gone) + Len(queue) + stops
      BY <1>6, <2>1, <2>5, <3>1
    <3> QED
      BY <2>1, <3>2, <3>3
  <2>7. SimTypes'
    BY <1>1, <1>2, <1>6, <2>3, <2>6 DEF SimTypes
  <2> QED
    BY <1>1, <1>5, <1>8, <2>1, <2>2, <2>4, <2>6, <2>7 DEF SimInv, Items, Early, Ended
<1> QED
  BY <1>4, <1>7, <1>8

\* The counters after a post, as numbers.
LEMMA PostedCounts ==
  ASSUME NEW outcome \in {"success", "refused", "error"}, Counts(result), result \in Results,
         result' = [result EXCEPT
            !.ok = @ + IF outcome = "success" THEN 1 ELSE 0,
            !.failed = @ + IF outcome = "success" THEN 0 ELSE 1,
            !.latencies = @ + 1,
            !.statuses = @ + IF outcome = "error" THEN 0 ELSE 1,
            !.decisions = @ + IF outcome = "success" THEN 1 ELSE 0,
            !.errors = IF outcome = "error" /\ @ < MaxErrors THEN @ + 1 ELSE @]
  PROVE  /\ result' \in Results /\ Counts(result')
         /\ result'.sent = result.sent /\ result'.latencies = result.latencies + 1
<1> DEFINE ok == result.ok + IF outcome = "success" THEN 1 ELSE 0
           failed == result.failed + IF outcome = "success" THEN 0 ELSE 1
           latencies == result.latencies + 1
           statuses == result.statuses + IF outcome = "error" THEN 0 ELSE 1
           decisions == result.decisions + IF outcome = "success" THEN 1 ELSE 0
           errors == IF outcome = "error" /\ result.errors < MaxErrors THEN result.errors + 1
                     ELSE result.errors
<1>1. /\ result.ok \in Nat /\ result.failed \in Nat /\ result.latencies \in Nat
      /\ result.statuses \in Nat /\ result.decisions \in Nat /\ result.errors \in Nat
  BY DEF Results
<1>2. /\ ok \in Nat /\ failed \in Nat /\ latencies \in Nat /\ statuses \in Nat /\ decisions \in Nat
      /\ errors \in Nat
  BY <1>1
<1>3. result' = [result EXCEPT !.ok = ok, !.failed = failed, !.latencies = latencies,
                   !.statuses = statuses, !.decisions = decisions, !.errors = errors]
  OBVIOUS
<1>4. /\ latencies = ok + failed /\ decisions = ok /\ ok <= statuses /\ statuses <= latencies
      /\ errors = IF latencies - statuses <= MaxErrors THEN latencies - statuses ELSE MaxErrors
  <2>1. MaxErrors \in Nat
    BY SimAssumption
  <2> QED
    BY <1>1, <2>1 DEF Counts
<1> HIDE DEF ok, failed, latencies, statuses, decisions, errors
<1>5. /\ result' \in Results /\ result'.ok = ok /\ result'.failed = failed
      /\ result'.latencies = latencies /\ result'.statuses = statuses
      /\ result'.decisions = decisions /\ result'.errors = errors /\ result'.sent = result.sent
  BY <1>2, <1>3 DEF Results
<1> QED
  BY <1>4, <1>5 DEF Counts, latencies

LEMMA PostedKeeps ==
  ASSUME SimInv, NEW w \in Workers, Posted(w)
  PROVE  SimInv'
<1>1. /\ worker[w] = "posting" /\ worker' = [worker EXCEPT ![w] = "idle"] /\ SimTypes
      /\ UNCHANGED <<phase, queue, stops, report>>
      /\ worker \in [Workers -> {"idle", "posting", "gone"}] /\ pending' = pending - 1
  BY DEF Posted, Finished, SimInv, SimTypes
<1>2. w \in Posting /\ Posting' = Posting \ {w} /\ Gone' = Gone
  BY <1>1 DEF Posting, Gone
<1>3. phase \in Early
  <2>1. phase \notin Ended /\ phase # "interrupted" /\ phase # "stopping"
    BY <1>1, <1>2 DEF SimInv
  <2> QED
    BY <1>1, <2>1 DEF SimTypes
<1>4. /\ Gone = {} /\ OfOneKind(queue, "transaction")
      /\ pending = Len(queue) + Cardinality(Posting) /\ result.sent = result.latencies + pending
  BY <1>3 DEF SimInv
<1>5. Cardinality(Posting) \in Nat \ {0} /\ IsFiniteSet(Posting)
  BY <1>2, FewerThanWorkers, FS_EmptySet DEF Posting
<1>6. Cardinality(Posting') = Cardinality(Posting) - 1
  BY <1>2, <1>5, FS_RemoveElement
<1>7. /\ result' \in Results /\ Counts(result')
      /\ result'.sent = result.sent /\ result'.latencies = result.latencies + 1
  BY PostedCounts DEF Posted, SimInv, SimTypes
<1>8. Len(queue) \in Nat /\ result.latencies \in Nat
  BY <1>1 DEF SimTypes, Results
<1>9. /\ pending' = Len(queue') + Cardinality(Posting') /\ pending' \in Nat
      /\ result'.sent = result'.latencies + pending'
  <2>1. /\ pending = Len(queue) + Cardinality(Posting) /\ pending' = pending - 1
        /\ Cardinality(Posting') = Cardinality(Posting) - 1 /\ Len(queue') = Len(queue)
        /\ Cardinality(Posting) \in Nat \ {0} /\ Len(queue) \in Nat
    BY <1>1, <1>4, <1>5, <1>6, <1>8
  <2>2. pending' = Len(queue') + Cardinality(Posting') /\ pending' \in Nat /\ pending \in Nat
    BY <2>1
  <2>3. /\ result.sent = result.latencies + pending /\ result'.sent = result.sent
        /\ result'.latencies = result.latencies + 1 /\ pending' = pending - 1
    BY <1>4, <1>7, <2>1
  <2>4. result'.sent = result'.latencies + pending'
    BY <1>8, <2>2, <2>3
  <2> QED
    BY <2>2, <2>4
<1>10. SimTypes'
  BY <1>1, <1>7, <1>9 DEF SimTypes
<1> QED
  BY <1>1, <1>2, <1>3, <1>4, <1>7, <1>9, <1>10 DEF SimInv, Items, Early, Ended

LEMMA SimStep == SimInv /\ [SimNext]_simVars => SimInv'
<1>1. ASSUME SimInv, UNCHANGED simVars PROVE SimInv'
  BY <1>1 DEF SimInv, SimTypes, Counts, OfOneKind, Posting, Gone, Summary, simVars
<1> QED
  BY <1>1, PhasesKeep, ProduceKeeps, PutStopKeeps, TakeKeeps, PostedKeeps
  DEF SimNext, MainStep, WorkerStep

LEMMA Difference ==
  ASSUME NEW m \in Nat, NEW n \in Nat, n <= m
  PROVE  m - n \in Nat
OBVIOUS

LEMMA FewWrong ==
  ASSUME NEW sent \in Nat, NEW ok \in Nat, NEW failed \in Nat, NEW statuses \in Nat,
         sent = ok + failed, ok <= statuses
  PROVE  sent - statuses <= failed
OBVIOUS

\* The errors shown are the least of those met, those kept and 25.
LEMMA ErrorsShown ==
  ASSUME NEW wrong \in Nat, NEW errors,
         errors = IF wrong <= MaxErrors THEN wrong ELSE MaxErrors
  PROVE  Min({errors, 25}) = Min({wrong, MaxErrors, 25}) /\ Min({errors, 25}) \in Nat
<1>1. MaxErrors \in Nat /\ errors \in Nat
  BY SimAssumption
<1>2. CASE errors <= 25
  <2>1. /\ errors \in {errors, 25} /\ \A y \in {errors, 25} : errors <= y
        /\ {errors, 25} \subseteq Nat
    BY <1>1, <1>2
  <2>2. /\ errors \in {wrong, MaxErrors, 25} /\ \A y \in {wrong, MaxErrors, 25} : errors <= y
        /\ {wrong, MaxErrors, 25} \subseteq Nat
    BY <1>1, <1>2
  <2> QED
    BY <1>1, <2>1, <2>2, LeastIs
<1>3. CASE ~(errors <= 25)
  <2>1. /\ 25 \in {errors, 25} /\ \A y \in {errors, 25} : 25 <= y
        /\ {errors, 25} \subseteq Nat
    BY <1>1, <1>3
  <2>2. /\ 25 \in {wrong, MaxErrors, 25} /\ \A y \in {wrong, MaxErrors, 25} : 25 <= y
        /\ {wrong, MaxErrors, 25} \subseteq Nat
    BY <1>1, <1>3
  <2> QED
    BY <2>1, <2>2, LeastIs
<1> QED
  BY <1>2, <1>3

\* The report of the counters.
LEMMA SimAccounts == SimInv => (phase \in {"exit 0", "exit 2"} => Accounted)
<1> SUFFICES ASSUME SimInv, phase \in {"exit 0", "exit 2"} PROVE Accounted
  OBVIOUS
<1>1. /\ worker = [w \in Workers |-> "gone"] /\ queue = <<>> /\ result.sent = result.latencies
      /\ report = Summary(result) /\ Counts(result) /\ result \in Results
  BY DEF SimInv, SimTypes, Ended
<1> DEFINE least == Min({result.errors, 25})
<1>2. report = [result EXCEPT !.errors = least]
  BY <1>1 DEF Summary
<1>3. /\ result.sent \in Nat /\ result.statuses \in Nat /\ result.errors \in Nat /\ result.ok \in Nat
      /\ result.failed \in Nat
  BY <1>1 DEF Results
<1>4. least = Min({result.sent - result.statuses, MaxErrors, 25}) /\ least \in Nat
  <2> DEFINE wrong == result.sent - result.statuses
  <2>1. result.statuses <= result.sent
    BY <1>1 DEF Counts
  <2>2. wrong \in Nat
    BY <1>3, <2>1, Difference, Zenon
  <2>3. result.errors = IF wrong <= MaxErrors THEN wrong ELSE MaxErrors
    BY <1>1 DEF Counts
  <2> HIDE DEF wrong
  <2>4. least = Min({wrong, MaxErrors, 25}) /\ least \in Nat
    BY <2>2, <2>3, ErrorsShown
  <2> QED
    BY <2>4 DEF wrong
<1> HIDE DEF least
<1>5. /\ report.errors = least /\ report.sent = result.sent /\ report.ok = result.ok
      /\ report.failed = result.failed /\ report.latencies = result.latencies
      /\ report.decisions = result.decisions /\ report.statuses = result.statuses
  <2>1. result \in Results
    BY <1>1
  <2> QED
    BY <1>2, <2>1 DEF Results
<1>6. result.sent - result.statuses <= result.failed
  <2>1. result.sent = result.ok + result.failed /\ result.ok <= result.statuses
    BY <1>1 DEF Counts
  <2> QED
    BY <1>3, <2>1, FewWrong, Zenon
<1> QED
  BY <1>1, <1>4, <1>5, <1>6 DEF Accounted, Counts

LEMMA SimTyped == SimInv => SimTypeOK
<1> SUFFICES ASSUME SimInv PROVE SimTypeOK
  OBVIOUS
<1>1. SimTypes /\ Counts(result) /\ result \in Results /\ queue \in Seq(Items)
  BY DEF SimInv, SimTypes
<1>2. result \in [DOMAIN NoResult -> Nat]
  <2>1. DOMAIN NoResult = {"sent", "ok", "failed", "latencies", "statuses", "decisions", "errors"}
    BY DEF NoResult
  <2>2. /\ DOMAIN result = {"sent", "ok", "failed", "latencies", "statuses", "decisions", "errors"}
        /\ result = [f \in DOMAIN result |-> result[f]]
        /\ \A f \in DOMAIN result : result[f] \in Nat
    BY <1>1 DEF Results
  <2> QED
    BY <2>1, <2>2
<1>3. result.errors <= MaxErrors
  <2>1. ASSUME NEW wrong, NEW errors,
               errors = IF wrong <= MaxErrors THEN wrong ELSE MaxErrors
        PROVE  errors <= MaxErrors
    BY <2>1, SimAssumption
  <2> QED
    BY <1>1, <2>1 DEF Counts
<1>4. Cardinality(Range(queue)) <= 1
  <2>1. PICK item \in Items : OfOneKind(queue, item)
    BY DEF SimInv
  <2>2. Range(queue) \in SUBSET {item}
    BY <1>1, <2>1 DEF Range, OfOneKind
  <2>3. IsFiniteSet({item}) /\ Cardinality({item}) = 1
    BY FS_Singleton
  <2> QED
    BY <2>2, <2>3, FS_Subset
<1> QED
  BY <1>1, <1>2, <1>3, <1>4 DEF SimTypeOK, SimTypes, Early, Ended
-----------------------------------------------------------------------------
(* The annexes of the report. *)

\* What the groups of rows with all their keys add up to.
LEMMA GroupsAddUp ==
  ASSUME NEW rows, IsFiniteSet(rows), NEW m, \A r \in rows : r[m] \in Nat,
         NEW annex, NEW groupOf \in [rows -> annex], \A g \in annex : \E r \in rows : groupOf[r] = g,
         \A g \in annex : g.sums[m] = Total({r \in rows : groupOf[r] = g}, m)
  PROVE  SumOf(annex, m) = Total(rows, m)
<1> DEFINE f == [r \in rows |-> r[m]]
           sums == [g \in annex |-> g.sums[m]]
<1>1. IsFiniteSet(annex)
  <2>1. groupOf \in Surjection(rows, annex)
    BY DEF Surjection
  <2> QED
    BY <2>1, FS_Surjection
<1>2. \A r \in rows : f[r] = r[m] /\ f[r] \in Nat
  OBVIOUS
<1>3. Total(rows, m) = SumFunctionOnSet(f, rows)
  BY DEF Total, SumFunction
<1>4. SumOf(annex, m) = SumFunctionOnSet(sums, annex)
  BY DEF SumOf, SumFunction
<1>5. ASSUME NEW g \in annex
      PROVE  sums[g] = PartSums(f, groupOf, rows, annex)[g]
  <2> DEFINE part == {r \in rows : groupOf[r] = g}
             own == [r \in part |-> r[m]]
  <2>1. IsFiniteSet(part)
    BY FS_Subset
  <2>2. g.sums[m] = SumFunctionOnSet(own, part)
    BY DEF Total, SumFunction
  <2>3. \A r \in part : own[r] = f[r]
    OBVIOUS
  <2> HIDE DEF own, f
  <2>4. SumFunctionOnSet(own, part) = SumFunctionOnSet(f, part)
    BY <2>1, <2>3, SumSame
  <2> QED
    BY <2>2, <2>4 DEF PartSums
<1> HIDE DEF f, sums
<1>6. SumFunctionOnSet(sums, annex) = SumFunctionOnSet(PartSums(f, groupOf, rows, annex), annex)
  BY <1>1, <1>5, SumSame
<1>7. SumFunctionOnSet(PartSums(f, groupOf, rows, annex), annex) = SumFunctionOnSet(f, rows)
  BY <1>1, <1>2, SumOfParts
<1> QED
  BY <1>3, <1>4, <1>6, <1>7

\* The groups of a data frame add up to its rows that have all the keys.
LEMMA GroupedAddsUp ==
  ASSUME NEW rows, IsFiniteSet(rows), NEW dims, NEW measures, NEW m \in measures,
         \A r \in rows : r[m] \in Nat
  PROVE  SumOf(Grouped(rows, dims, measures), m) = Total(Keyed(rows, dims), m)
<1> DEFINE keyed == Keyed(rows, dims)
           annex == Grouped(rows, dims, measures)
           groupOf == [r \in keyed |-> Group(rows, dims, measures, KeyOf(r, dims))]
<1>1. keyed \in SUBSET rows /\ IsFiniteSet(keyed)
  BY FS_Subset DEF Keyed
<1>2. groupOf \in [keyed -> annex] /\ \A g \in annex : \E r \in keyed : groupOf[r] = g
  BY DEF Grouped
<1>3. ASSUME NEW g \in annex
      PROVE  g.sums[m] = Total({r \in keyed : groupOf[r] = g}, m)
  <2>1. PICK q \in keyed : g = Group(rows, dims, measures, KeyOf(q, dims))
    BY DEF Grouped
  <2>2. /\ g.by = KeyOf(q, dims)
        /\ g.sums[m] = Total({r \in keyed : KeyOf(r, dims) = KeyOf(q, dims)}, m)
    BY <2>1 DEF Group
  <2>3. \A r \in keyed : groupOf[r] = g <=> KeyOf(r, dims) = KeyOf(q, dims)
    BY <2>1 DEF Group
  <2>4. {r \in keyed : groupOf[r] = g} = {r \in keyed : KeyOf(r, dims) = KeyOf(q, dims)}
    BY <2>3
  <2> QED
    BY <2>2, <2>4
<1> HIDE DEF annex, groupOf, keyed
<1>4. SumOf(annex, m) = Total(keyed, m)
  BY <1>1, <1>2, <1>3, GroupsAddUp
<1> QED
  BY <1>4 DEF annex, keyed

\* What Total is a sum of.
LEMMA TotalIs ==
  ASSUME NEW f, NEW m, NEW rows, IsFiniteSet(rows), \A r \in rows : f[r] = r[m]
  PROVE  Total(rows, m) = SumFunctionOnSet(f, rows)
<1> DEFINE own == [r \in rows |-> r[m]]
<1>1. Total(rows, m) = SumFunctionOnSet(own, rows) /\ \A r \in rows : own[r] = f[r]
  BY DEF Total, SumFunction
<1> HIDE DEF own
<1> QED
  BY <1>1, SumSame

LEMMA AnnexesAddUp ==
  ASSUME NEW rows, IsFiniteSet(rows), \A r \in rows : IsRow(r)
  PROVE  /\ SumOf(AnnexA(rows), "tx") = Total(rows, "tx")
         /\ SumOf(AnnexC(rows), "fraudValue") = Total(rows, "fraudValue")
         /\ SumOf(AnnexB(rows), "fraud") = Total({r \in rows : r.type # None}, "fraud")
         /\ SumOf(AnnexD(rows), "loss") = Total({r \in WithFraud(rows) : r.bearer # None}, "loss")
<1>1. /\ \A r \in rows, m \in {"tx", "value", "fraud", "fraudValue", "loss"} : r[m] \in Nat
      /\ \A r \in rows, d \in {"instrument", "channel", "exemption", "geo"} : r[d] # None
  BY DEF IsRow
<1> DEFINE fraud == WithFraud(rows)
<1>2. fraud \in SUBSET rows /\ IsFiniteSet(fraud)
  BY FS_Subset DEF WithFraud
<1>3. SumOf(AnnexA(rows), "tx") = Total(rows, "tx")
  <2>1. Keyed(rows, {"instrument", "channel"}) = rows
    BY <1>1 DEF Keyed
  <2>2. SumOf(Grouped(rows, {"instrument", "channel"}, {"tx", "value"}), "tx")
          = Total(Keyed(rows, {"instrument", "channel"}), "tx")
    BY <1>1, GroupedAddsUp
  <2> QED
    BY <2>1, <2>2 DEF AnnexA
<1>4. SumOf(AnnexD(rows), "loss") = Total({r \in fraud : r.bearer # None}, "loss")
  <2>1. Keyed(fraud, {"instrument", "bearer", "geo"}) = {r \in fraud : r.bearer # None}
    BY <1>1, <1>2 DEF Keyed
  <2>2. SumOf(Grouped(fraud, {"instrument", "bearer", "geo"}, {"loss", "fraud"}), "loss")
          = Total(Keyed(fraud, {"instrument", "bearer", "geo"}), "loss")
    BY <1>1, <1>2, GroupedAddsUp
  <2> QED
    BY <2>1, <2>2 DEF AnnexD
<1>5. SumOf(AnnexB(rows), "fraud") = Total({r \in rows : r.type # None}, "fraud")
  <2> DEFINE typed == {r \in rows : r.type # None}
             keyed == {r \in fraud : r.type # None}
             f == [r \in rows |-> r["fraud"]]
  <2>1. Keyed(fraud, {"instrument", "channel", "type"}) = keyed
    BY <1>1, <1>2 DEF Keyed
  <2>2. SumOf(Grouped(fraud, {"instrument", "channel", "type"}, {"fraud", "fraudValue", "loss"}), "fraud")
          = Total(Keyed(fraud, {"instrument", "channel", "type"}), "fraud")
    BY <1>1, <1>2, GroupedAddsUp
  <2>3. /\ typed \in SUBSET rows /\ keyed \in SUBSET typed /\ IsFiniteSet(typed) /\ IsFiniteSet(keyed)
        /\ \A r \in rows : f[r] = r["fraud"] /\ f[r] \in Nat
    BY <1>1, <1>2, FS_Subset
  <2>4. \A r \in typed \ keyed : f[r] = 0
    BY <1>1 DEF WithFraud
  <2> HIDE DEF typed, keyed, f
  <2>5. Total(typed, "fraud") = SumFunctionOnSet(f, typed)
        /\ Total(keyed, "fraud") = SumFunctionOnSet(f, keyed)
    BY <2>3, TotalIs
  <2>6. SumFunctionOnSet(f, typed) = SumFunctionOnSet(f, keyed)
    BY <2>3, <2>4, SumOfRest
  <2> QED
    BY <2>1, <2>2, <2>5, <2>6 DEF AnnexB, typed
<1>6. SumOf(AnnexC(rows), "fraudValue") = Total(rows, "fraudValue")
  <2> DEFINE dims == {"instrument", "exemption"}
             measures == {"tx", "value", "fraud", "fraudValue"}
             Rated(g) == [by |-> g.by, sums |-> g.sums,
                          rate |-> IF g.sums.value = 0 THEN 0
                                   ELSE (g.sums.fraudValue * 10000) \div g.sums.value]
             G(r) == Group(rows, dims, measures, KeyOf(r, dims))
             groupOf == [r \in rows |-> Rated(G(r))]
             annex == AnnexC(rows)
  <2>1. Keyed(rows, dims) = rows
    BY <1>1 DEF Keyed
  <2>2. annex = {Rated(G(r)) : r \in rows}
    <3> HIDE DEF dims, measures
    <3>1. Grouped(rows, dims, measures) = {G(r) : r \in rows}
      BY <2>1 DEF Grouped
    <3>2. annex = {Rated(g) : g \in Grouped(rows, dims, measures)}
      BY DEF AnnexC, dims, measures
    <3> HIDE DEF Rated, G
    <3> QED
      BY <3>1, <3>2
  <2>3. groupOf \in [rows -> annex] /\ \A g \in annex : \E r \in rows : groupOf[r] = g
    <3> HIDE DEF Rated, G, annex
    <3> QED
      BY <2>2
  <2>4. ASSUME NEW g \in annex
        PROVE  g.sums["fraudValue"] = Total({r \in rows : groupOf[r] = g}, "fraudValue")
    <3>1. PICK q \in rows : g = Rated(G(q))
      BY <2>2
    <3>2. \A r \in rows : G(r).by = KeyOf(r, dims) /\ groupOf[r] = Rated(G(r))
      BY DEF Group
    <3>3. G(q).sums["fraudValue"] =
            Total({r \in Keyed(rows, dims) : KeyOf(r, dims) = KeyOf(q, dims)}, "fraudValue")
      <4> HIDE DEF dims
      <4> QED
        BY DEF Group
    <3>4. \A r, k : KeyOf(r, dims) = KeyOf(k, dims) => G(r) = G(k)
      <4> HIDE DEF dims, measures
      <4> QED
        BY Zenon
    <3>5. \A h : Rated(h).by = h.by /\ Rated(h).sums = h.sums
      OBVIOUS
    <3> HIDE DEF Rated, G, groupOf, dims, annex
    <3>6. \A r \in rows : groupOf[r] = g <=> KeyOf(r, dims) = KeyOf(q, dims)
      BY <3>1, <3>2, <3>4, <3>5
    <3>7. {r \in rows : groupOf[r] = g} = {r \in rows : KeyOf(r, dims) = KeyOf(q, dims)}
      BY <3>6
    <3>8. g.sums["fraudValue"] = Total({r \in rows : KeyOf(r, dims) = KeyOf(q, dims)}, "fraudValue")
      BY <2>1, <3>1, <3>3, <3>5
    <3> QED
      BY <3>7, <3>8
  <2> HIDE DEF groupOf, annex
  <2>5. \A r \in rows : r["fraudValue"] \in Nat
    BY <1>1
  <2>6. SumOf(annex, "fraudValue") = Total(rows, "fraudValue")
    BY <2>3, <2>4, <2>5, GroupsAddUp
  <2> QED
    BY <2>6 DEF annex
<1> QED
  BY <1>3, <1>4, <1>5, <1>6

\* The job runs in the month after a quarter, whose last day is in the month before.
LEMMA JobReportsLastQuarter ==
  ASSUME NEW month \in {1, 4, 7, 10}
  PROVE  LET end == DatesOf(QuarterOf(2026, month))[2]
         IN 12 * end[1] + end[2] = 12 * 2026 + month - 1
<1>1. /\ QuarterOf(2026, 1) = <<2025, 4>> /\ QuarterOf(2026, 4) = <<2026, 1>>
      /\ QuarterOf(2026, 7) = <<2026, 2>> /\ QuarterOf(2026, 10) = <<2026, 3>>
  BY DEF QuarterOf
<1>2. \A q : DatesOf(q)[2][1] = q[1] /\ DatesOf(q)[2][2] = 3 * q[2]
  BY DEF DatesOf
<1>3. LET q == QuarterOf(2026, month) IN 12 * q[1] + 3 * q[2] = 12 * 2026 + month - 1
  BY <1>1
<1> QED
  BY <1>2, <1>3

LEMMA EbaTyped == FiledInv /\ aggregates \in BOOLEAN => EbaTypeOK
<1> SUFFICES ASSUME FiledInv, aggregates \in BOOLEAN PROVE EbaTypeOK
  OBVIOUS
<1>1. /\ gold \in Tables /\ \A k \in 1 .. 3 : files[k].rows \in Contents
      /\ \A p \in Processes : runs[p].rows \in Contents /\ runs[p].next \in 1 .. 4
  BY DEF FiledInv, RunTypes, Runs, Files
<1>2. \A rows \in Contents : IsFiniteSet(rows) /\ \A r \in rows : IsRow(r)
  BY EbaAssumption, FS_EmptySet DEF Contents
<1>3. ASSUME NEW k \in 1 .. 3
      PROVE  LET rows == files[k].rows
             IN /\ SumOf(AnnexA(rows), "tx") = Total(rows, "tx")
                /\ SumOf(AnnexC(rows), "fraudValue") = Total(rows, "fraudValue")
                /\ SumOf(AnnexB(rows), "fraud") = Total({r \in rows : r.type # None}, "fraud")
                /\ SumOf(AnnexD(rows), "loss") =
                     Total({r \in WithFraud(rows) : r.bearer # None}, "loss")
  BY <1>1, <1>2, AnnexesAddUp
<1> QED
  BY <1>1, <1>3, JobReportsLastQuarter DEF EbaTypeOK, Contents

LEMMA AggregatesStay ==
  aggregates \in BOOLEAN /\ [EbaNext]_ebaVars => aggregates' \in BOOLEAN
BY DEF EbaNext, Rewrite, Begin, Load, Upload, Finish, RunFails, ebaVars
-----------------------------------------------------------------------------
(* The streams of transactions. *)

\* The ring has met the pairs its cursor has passed.
PatternInv ==
  /\ pattern \in Patterns /\ burst \in 0 .. MaxBurst /\ cursor \in 0 .. MaxCursor
  /\ drawn.label = "none" \/ drawn.label = "normal" <=> drawn.local = "converted"
  /\ hit = {<<i % RingCards, i % RingMerchants>> : i \in 0 .. cursor - 1}

LEMMA PatternStart == PatternInit => PatternInv
<1> SUFFICES ASSUME PatternInit PROVE PatternInv
  OBVIOUS
<1>1. cursor = 0 /\ hit = {} /\ 0 .. cursor - 1 = {}
  BY DEF PatternInit
<1>2. drawn.label = "none" /\ drawn.local = "converted"
  BY DEF PatternInit, NothingDrawn, Normal
<1>3. burst \in 0 .. MaxBurst /\ cursor \in 0 .. MaxCursor
  BY <1>1, PatternAssumption DEF PatternInit
<1> QED
  BY <1>1, <1>2, <1>3 DEF PatternInit, PatternInv

LEMMA PatternStep == PatternInv /\ [PatternNext]_patternVars => PatternInv'
<1> SUFFICES ASSUME PatternInv, [PatternNext]_patternVars PROVE PatternInv'
  OBVIOUS
<1>1. CASE UNCHANGED patternVars
  BY <1>1 DEF PatternInv, patternVars
<1>2. CASE DrawNormal
  <2>1. drawn'.label = "normal" /\ drawn'.local = "converted"
        /\ UNCHANGED <<pattern, cursor, hit, burst>>
    BY <1>2 DEF DrawNormal, Normal
  <2> QED
    BY <2>1 DEF PatternInv
<1>3. CASE DrawRing
  <2>1. PICK at \in {0} \cup (IF cursor < MaxCursor THEN {cursor} ELSE {}), abroad \in BOOLEAN :
          /\ hit' = (IF at = 0 THEN {} ELSE hit) \cup {<<at % RingCards, at % RingMerchants>>}
          /\ cursor' = at + 1
          /\ drawn' = [Normal("fraud_ring", "pos", abroad) EXCEPT !.local = "copied"]
    BY <1>3 DEF DrawRing
  <2>2. drawn'.label = "fraud_ring" /\ drawn'.local = "copied"
    <3> DEFINE n == Normal("fraud_ring", "pos", abroad)
    <3>1. n = [label |-> "fraud_ring", channel |-> "pos", abroad |-> abroad, local |-> "converted"]
      BY DEF Normal
    <3>2. drawn' = [n EXCEPT !.local = "copied"]
      BY <2>1
    <3> HIDE DEF n
    <3> QED
      BY <3>1, <3>2
  <2>3. at \in Nat /\ at + 1 \in 0 .. MaxCursor /\ (at = 0 \/ at = cursor)
    BY <2>1, PatternAssumption DEF PatternInv
  <2>4. hit' = {<<i % RingCards, i % RingMerchants>> : i \in 0 .. at}
    <3> DEFINE pair(i) == <<i % RingCards, i % RingMerchants>>
    <3>1. (IF at = 0 THEN {} ELSE hit) = {pair(i) : i \in 0 .. at - 1}
      BY <2>3 DEF PatternInv
    <3>2. 0 .. at = (0 .. at - 1) \cup {at}
      BY <2>3
    <3>3. hit' = {pair(i) : i \in 0 .. at - 1} \cup {pair(at)}
      BY <2>1, <3>1
    <3> HIDE DEF pair
    <3>4. hit' = {pair(i) : i \in 0 .. at}
      BY <3>2, <3>3
    <3> QED
      BY <3>4 DEF pair
  <2>5. at + 1 - 1 = at /\ cursor' = at + 1
    BY <2>1, <2>3
  <2>6. UNCHANGED <<pattern, burst>>
    BY <1>3 DEF DrawRing
  <2> QED
    BY <2>2, <2>3, <2>4, <2>5, <2>6 DEF PatternInv
<1>4. CASE DrawTakeover
  <2>1. drawn'.label = "account_takeover" /\ drawn'.local = "stale"
    <3> DEFINE n == Normal("account_takeover", "ecom", FALSE)
    <3>1. n.label = "account_takeover" /\ n = [l \in {"label", "channel", "abroad", "local"} |-> n[l]]
      BY DEF Normal
    <3>2. drawn' = [n EXCEPT !.local = "stale"]
      BY <1>4 DEF DrawTakeover
    <3> HIDE DEF n
    <3> QED
      BY <3>1, <3>2
  <2>2. burst' \in 0 .. MaxBurst
    <3>1. PICK left \in IF burst = 0 THEN MinBurst .. MaxBurst ELSE {burst} : burst' = left - 1
      BY <1>4 DEF DrawTakeover
    <3>2. left \in Nat /\ left >= 1 /\ left <= MaxBurst /\ MaxBurst \in Nat
      BY <3>1, PatternAssumption DEF PatternInv
    <3> QED
      BY <3>1, <3>2
  <2> QED
    BY <1>4, <2>1, <2>2 DEF PatternInv, DrawTakeover
<1> QED
  BY <1>1, <1>2, <1>3, <1>4 DEF PatternNext

\* Ten cards and three merchants: after thirty draws every card has met every merchant.
LEMMA PatternTyped == PatternInv => PatternTypeOK
<1> SUFFICES ASSUME PatternInv, cursor >= RingCards * RingMerchants
             PROVE  hit = (0 .. RingCards - 1) \X (0 .. RingMerchants - 1)
  BY DEF PatternInv, PatternTypeOK
<1>1. RingCards = 10 /\ RingMerchants = 3 /\ cursor \in Nat /\ cursor >= 30
  BY PatternAssumption DEF PatternInv
<1>2. ASSUME NEW c \in 0 .. 9, NEW m \in 0 .. 2
      PROVE  \E i \in 0 .. cursor - 1 : i % 10 = c /\ i % 3 = m
  <2> DEFINE i == (21 * c + 10 * m) % 30
  <2>1. i \in 0 .. 29 /\ i % 10 = c /\ i % 3 = m
    OBVIOUS
  <2> HIDE DEF i
  <2>2. i \in 0 .. cursor - 1
    BY <1>1, <2>1
  <2> QED
    BY <2>1, <2>2
<1>3. \A i \in 0 .. cursor - 1 : i % 10 \in 0 .. 9 /\ i % 3 \in 0 .. 2
  BY <1>1
<1>4. hit = {<<i % 10, i % 3>> : i \in 0 .. cursor - 1}
  BY <1>1 DEF PatternInv
<1>5. hit = (0 .. 9) \X (0 .. 2)
  BY <1>2, <1>3, <1>4
<1> QED
  BY <1>1, <1>5
-----------------------------------------------------------------------------
(* The command line client. *)
Commands == {"health", "score", "load", "inject", "scenario"}

\* The exit code tells whether a request failed, and no more fail than are sent.
ClientInv ==
  /\ model \in ModelStates
  /\ cli \in [todo : Seq(Commands), sent : Nat, failed : Nat, code : {0, 1}]
  /\ cli.failed <= cli.sent /\ (cli.code = 1 <=> cli.failed > 0)

LEMMA ClientStart == ClientInit => ClientInv
<1> SUFFICES ASSUME ClientInit PROVE ClientInv
  OBVIOUS
<1>1. model \in ModelStates /\ cli = [todo |-> <<>>, sent |-> 0, failed |-> 0, code |-> 0]
  BY ClientAssumption DEF ClientInit, NoCli
<1>2. <<>> \in Seq(Commands)
  OBVIOUS
<1> QED
  BY <1>1, <1>2 DEF ClientInv

LEMMA ClientStep == ClientInv /\ [ClientNext]_clientVars => ClientInv'
<1> SUFFICES ASSUME ClientInv, [ClientNext]_clientVars PROVE ClientInv'
  OBVIOUS
<1> DEFINE Clients == [todo : Seq(Commands), sent : Nat, failed : Nat, code : {0, 1}]
<1>1. CASE UNCHANGED clientVars
  BY <1>1 DEF ClientInv, clientVars
<1>2. CASE StartCli
  <2>1. PICK command \in Commands \cup {"all"} : cli' = [cli EXCEPT !.todo = CliPlan(command)]
    BY <1>2 DEF StartCli, Commands
  <2> DEFINE plan == CliPlan(command)
  <2>2. plan \in Seq(Commands)
    <3>1. CASE command = "all"
      <4>1. plan = <<"health", "score", "score", "scenario", "load", "inject">>
        BY <3>1 DEF CliPlan
      <4>2. /\ "health" \in Commands /\ "score" \in Commands /\ "scenario" \in Commands
            /\ "load" \in Commands /\ "inject" \in Commands
        BY DEF Commands
      <4> HIDE DEF plan
      <4> QED
        BY <4>1, <4>2
    <3>2. CASE command # "all"
      <4>1. plan = <<command>> /\ command \in Commands
        BY <3>2 DEF CliPlan
      <4> HIDE DEF plan
      <4> QED
        BY <4>1
    <3> QED
      BY <3>1, <3>2
  <2>3. cli' = [cli EXCEPT !.todo = plan]
    BY <2>1
  <2> HIDE DEF plan
  <2>4. cli' \in Clients /\ UNCHANGED <<cli.sent, cli.failed, cli.code>>
    BY <2>2, <2>3 DEF ClientInv
  <2> QED
    BY <1>2, <2>4 DEF ClientInv, StartCli
<1>3. CASE RunCommand
  <2> DEFINE n == Requests(Head(cli.todo))
  <2>1. PICK failures \in 0 .. n :
          cli' = [todo |-> Tail(cli.todo), sent |-> cli.sent + n, failed |-> cli.failed + failures,
                  code |-> IF failures > 0 THEN 1 ELSE cli.code]
    BY <1>3 DEF RunCommand
  <2>2. Head(cli.todo) \in Commands /\ Tail(cli.todo) \in Seq(Commands)
    BY <1>3 DEF RunCommand, ClientInv
  <2>3. n \in Nat
    BY <2>2, ClientAssumption DEF Requests, Commands
  <2> HIDE DEF n
  <2>4. /\ cli.sent \in Nat /\ cli.failed \in Nat /\ cli.code \in {0, 1}
        /\ cli.failed <= cli.sent /\ (cli.code = 1 <=> cli.failed > 0)
    BY DEF ClientInv
  <2>5. /\ cli'.todo = Tail(cli.todo) /\ cli'.sent = cli.sent + n
        /\ cli'.failed = cli.failed + failures
        /\ cli'.code = IF failures > 0 THEN 1 ELSE cli.code
    BY <2>1
  <2>6. failures \in Nat /\ failures <= n
    BY <2>1, <2>3
  <2>7. cli' \in Clients
    <3>1. cli.sent + n \in Nat /\ cli.failed + failures \in Nat
          /\ (IF failures > 0 THEN 1 ELSE cli.code) \in {0, 1}
      BY <2>3, <2>4, <2>6
    <3> QED
      BY <2>1, <2>2, <3>1
  <2>8. cli'.failed <= cli'.sent /\ (cli'.code = 1 <=> cli'.failed > 0)
    BY <2>3, <2>4, <2>5, <2>6
  <2> QED
    BY <1>3, <2>7, <2>8 DEF ClientInv, RunCommand
<1> QED
  BY <1>1, <1>2, <1>3 DEF ClientNext

\* The blocked card is declined whatever is deployed.
LEMMA ClientTyped == ClientInv => ClientTypeOK
<1> SUFFICES ASSUME ClientInv PROVE ClientTypeOK
  OBVIOUS
<1> DEFINE f == TxOf("blocked")
<1>1. f.card.blocked
  <2>1. f = Features(400, BlockedCard, FraudMerchant, SeededAgg(BlockedCard))
    BY DEF TxOf
  <2> HIDE DEF f
  <2> QED
    BY <2>1 DEF Features, BlockedCard, CardOf
<1> HIDE DEF f
<1>2. \A s : Answer(f, s).decision = "DECLINE"
  BY <1>1 DEF Answer, Decide
<1>3. \A a \in Answers(model, f) : a.decision = "DECLINE"
  BY <1>2 DEF Answers
<1>4. Answer(f, StubScore(f, 0)) \in Answers(model, f)
  BY DEF Answers, ScoresOf, Jitters
<1>5. LiveOutcomes("blocked") = {"DECLINE", "ERROR"}
  <2>1. {a.decision : a \in Answers(model, f)} = {"DECLINE"}
    BY <1>3, <1>4
  <2> QED
    BY <2>1 DEF LiveOutcomes, f
<1> QED
  BY <1>5 DEF ClientInv, ClientTypeOK
-----------------------------------------------------------------------------
(* The types of the others. *)
LEMMA ScaleTyped == ScaleInv => ScaleTypeOK
<1> SUFFICES ASSUME ScaleInv PROVE ScaleTypeOK
  OBVIOUS
<1>1. estate \in EstateSet /\ script \in [Shells -> ScriptRuns] /\ outages \in 0 .. MaxOutages
  BY DEF ScaleInv, ScaleTypes
<1>2. DOMAIN estate = Resources /\ estate.fabric \in Capacities
  BY <1>1 DEF EstateSet, Resources
<1>3. \A r \in Shells :
        script[r].failed \cup script[r].touched \cup script[r].stuck \subseteq Resources
  BY <1>1 DEF ScriptRuns
<1> QED
  BY <1>1, <1>2, <1>3 DEF ScaleTypeOK, Capacities

LEMMA ConsoleTyped == CaseInv => ConsoleTypeOK
BY DEF CaseInv, ConsoleTypes, PageTypes, ConsoleTypeOK

LEMMA DeployTypesStart == DeployInit => DeployTypeOK
<1> SUFFICES ASSUME DeployInit PROVE DeployTypeOK
  OBVIOUS
<1>1. deploys = 0 /\ 0 \in 0 .. MaxDeploys
  BY DeployAssumption DEF DeployInit
<1>2. \A o \in Operators : deploy[o].stage = "idle"
  BY DEF DeployInit, NoDeploy
<1>3. \A o \in Operators : deploy[o].stage \notin {"captured", "done", "not stored"}
  BY <1>2
<1>4. /\ group \in {"none", "live", "deleting"} /\ vault \in {"none", "live", "deleted"}
      /\ outputs \in Operators \cup {"none"}
  BY DEF DeployInit
<1> QED
  BY <1>1, <1>3, <1>4 DEF DeployTypeOK

\* No run goes by a version that has not been registered.
VersionsAreKnown == \A r \in Runners : scoring[r].version <= Latest("model")

LEMMA VersionsStart == ScorecardInit => VersionsAreKnown
BY ScorecardAssumption DEF ScorecardInit, VersionsAreKnown, NoRunYet, Latest, Assets

LEMMA VersionsStep ==
  ScorecardInv /\ VersionsAreKnown /\ [ScorecardNext]_scorecardVars => VersionsAreKnown'
<1> SUFFICES ASSUME ScorecardInv, VersionsAreKnown, [ScorecardNext]_scorecardVars
             PROVE  VersionsAreKnown'
  OBVIOUS
<1>1. /\ registry \in [Assets -> Seq(Runners)] /\ scoring \in [Runners -> ScoringRuns]
      /\ Latest("model") \in Nat
  BY ScorecardAssumption DEF ScorecardInv, ScorecardTypes, Latest, Assets
<1>2. CASE UNCHANGED scorecardVars
  BY <1>2 DEF VersionsAreKnown, Latest, scorecardVars
<1>3. ASSUME NEW r \in Runners, UNCHANGED registry,
             \A q \in Runners \ {r} : scoring'[q] = scoring[q],
             scoring'[r].version <= Latest("model")
      PROVE  VersionsAreKnown'
  <2>1. Latest("model")' = Latest("model")
    BY <1>3 DEF Latest
  <2> QED
    BY <1>3, <2>1 DEF VersionsAreKnown
<1>4. ASSUME NEW r \in Runners, StartScoring(r) PROVE VersionsAreKnown'
  <2>1. PICK by \in {"script", "python"} : scoring' = [scoring EXCEPT ![r].by = by, ![r].at = 1]
    BY <1>4 DEF StartScoring
  <2>2. scoring'[r].version = scoring[r].version
        /\ \A q \in Runners \ {r} : scoring'[q] = scoring[q]
    BY <1>1, <2>1 DEF ScoringRuns
  <2> QED
    BY <1>3, <1>4, <2>2 DEF StartScoring, VersionsAreKnown
<1>5. ASSUME NEW r \in Runners, Register(r) PROVE VersionsAreKnown'
  <2> DEFINE asset == Order[scoring[r].at]
  <2>1. asset \in Assets
    BY <1>5 DEF Register, Order, Assets
  <2>2. CASE scoring' = [scoring EXCEPT ![r].at = 9] /\ UNCHANGED registry
    <3>1. scoring'[r].version = scoring[r].version
          /\ \A q \in Runners \ {r} : scoring'[q] = scoring[q]
      BY <1>1, <2>2 DEF ScoringRuns
    <3> QED
      BY <1>3, <2>2, <3>1 DEF VersionsAreKnown
  <2>3. CASE /\ registry' = [registry EXCEPT ![asset] = Append(@, r)]
             /\ scoring' = [q \in Runners |->
                  IF q = r THEN [scoring[r] EXCEPT !.at = @ + 1,
                                   !.version = IF asset = "model" THEN Latest("model") + 1 ELSE @]
                  ELSE [scoring[q] EXCEPT !.crossed = @ \/ scoring[q].at > 1]]
    <3>1. /\ asset = "model" => Latest("model")' = Latest("model") + 1
          /\ asset # "model" => Latest("model")' = Latest("model")
      <4> HIDE DEF asset
      <4>1. registry'["model"] = IF asset = "model" THEN Append(registry["model"], r)
                                 ELSE registry["model"]
        BY <1>1, <2>1, <2>3 DEF Assets
      <4>2. registry["model"] \in Seq(Runners)
        BY <1>1 DEF Assets
      <4>3. Len(Append(registry["model"], r)) = Len(registry["model"]) + 1
            /\ Len(registry["model"]) \in Nat
        BY <4>2
      <4> QED
        BY <4>1, <4>3, ScorecardAssumption DEF Latest
    <3> DEFINE version == IF asset = "model" THEN Latest("model") + 1 ELSE scoring[r].version
    <3>2. scoring'[r].version = version
      <4> HIDE DEF asset
      <4>1. scoring[r] \in ScoringRuns
        BY <1>1
      <4>2. scoring'[r] = [scoring[r] EXCEPT !.at = @ + 1, !.version = version]
        BY <2>3
      <4> HIDE DEF version
      <4> QED
        BY <4>1, <4>2 DEF ScoringRuns
    <3>3. \A q \in Runners \ {r} : scoring'[q].version = scoring[q].version
      <4> SUFFICES ASSUME NEW q \in Runners \ {r} PROVE scoring'[q].version = scoring[q].version
        OBVIOUS
      <4>1. scoring'[q] = [scoring[q] EXCEPT !.crossed = @ \/ scoring[q].at > 1]
            /\ scoring[q] \in ScoringRuns
        BY <1>1, <2>3
      <4> QED
        BY <4>1 DEF ScoringRuns
    <3>4. \A q \in Runners : scoring[q].version \in Nat /\ scoring[q].version <= Latest("model")
      BY <1>1 DEF VersionsAreKnown, ScoringRuns
    <3> DEFINE latest == Latest("model")
               latest2 == Latest("model")'
    <3>5. latest \in Nat /\ (latest2 = latest \/ latest2 = latest + 1)
          /\ (asset = "model" => latest2 = latest + 1)
      BY <1>1, <3>1
    <3> HIDE DEF latest2, latest, asset
    <3>6. \A q \in Runners : scoring'[q].version <= latest2
      <4>1. \A q \in Runners \ {r} : scoring'[q].version <= latest2
        BY <3>3, <3>4, <3>5 DEF latest
      <4>2. scoring'[r].version <= latest2
        BY <3>2, <3>4, <3>5 DEF latest
      <4> QED
        BY <4>1, <4>2
    <3> QED
      BY <3>6 DEF VersionsAreKnown, latest2
  <2> QED
    BY <1>5, <2>2, <2>3 DEF Register
<1>6. ASSUME NEW r \in Runners, AskVersion(r) PROVE VersionsAreKnown'
  <2>1. PICK listed \in BOOLEAN :
          scoring' = [scoring EXCEPT ![r].at = 5, ![r].listed = listed,
            ![r].version = IF scoring[r].by = "python" THEN @
                           ELSE IF listed THEN Listed(1 .. Latest("model")) ELSE 1]
    BY <1>6 DEF AskVersion
  <2> DEFINE version == IF scoring[r].by = "python" THEN scoring[r].version
                        ELSE IF listed THEN Listed(1 .. Latest("model")) ELSE 1
  <2>2. scoring'[r].version = version /\ \A q \in Runners \ {r} : scoring'[q] = scoring[q]
    <3>1. scoring' = [scoring EXCEPT ![r].at = 5, ![r].listed = listed, ![r].version = version]
      BY <2>1
    <3> HIDE DEF version
    <3> QED
      BY <1>1, <3>1 DEF ScoringRuns
  <2>3. Latest("model") \in Nat \ {0}
    <3>1. registry["model"] # <<>> /\ registry["model"] \in Seq(Runners)
      BY <1>1, <1>6 DEF ScorecardInv, VersionIsOwn, AskVersion, Assets
    <3> QED
      BY <3>1, ScorecardAssumption DEF Latest
  <2>4. Listed(1 .. Latest("model")) = Latest("model")
    BY <2>3, ListedIsLatest
  <2>5. version <= Latest("model")
    BY <2>3, <2>4 DEF VersionsAreKnown
  <2> QED
    BY <1>3, <1>6, <2>2, <2>5 DEF AskVersion
<1>7. ASSUME NEW r \in Runners, Submit(r) PROVE VersionsAreKnown'
  <2> DEFINE judged == [info |-> OwnerOf("model", scoring[r].version),
                        loaded |-> OwnerOf("model", Latest("model")),
                        train |-> OwnerOf("train", Latest("train")),
                        test |-> OwnerOf("test", Latest("test"))]
  <2>1. scoring' = [scoring EXCEPT ![r].at = 6, ![r].judged = judged]
    BY <1>7 DEF Submit
  <2> HIDE DEF judged
  <2>2. scoring'[r].version = scoring[r].version
        /\ \A q \in Runners \ {r} : scoring'[q] = scoring[q]
    BY <1>1, <2>1 DEF ScoringRuns
  <2> QED
    BY <1>3, <1>7, <2>2 DEF Submit, VersionsAreKnown
<1> QED
  BY <1>2, <1>4, <1>5, <1>6, <1>7 DEF ScorecardNext

LEMMA ScorecardTyped == ScorecardInv /\ VersionsAreKnown => ScorecardTypeOK
BY DEF ScorecardInv, ScorecardTypes, ScoringRuns, VersionsAreKnown, ScorecardTypeOK
-----------------------------------------------------------------------------
(* Together: a step of ToolsSpec is one of a single tool. *)
LEMMA ConsoleLeavesClient == ConsoleNext => UNCHANGED clientVars
<1> SUFFICES ASSUME ConsoleNext PROVE UNCHANGED clientVars
  OBVIOUS
<1>1. CASE GraphAsked \/ GraphAnswered
  BY <1>1 DEF GraphAsked, GraphAnswered
<1>2. ASSUME NEW t \in Tabs, StartStream(t) \/ Emit(t) \/ OpenCase(t) \/ Synthesize(t)
      PROVE  UNCHANGED clientVars
  BY <1>2 DEF StartStream, Emit, OpenCase, Synthesize
<1>3. ASSUME NEW t \in Tabs, Record(t) \/ EndStream(t) \/ CloseTab(t) \/ ClickClear(t)
      PROVE  UNCHANGED clientVars
  BY <1>3 DEF Record, EndStream, CloseTab, ClickClear
<1>4. ASSUME NEW t \in Tabs, ResetMetrics(t) \/ ResetInjection(t) \/ ResetGraph(t)
      PROVE  UNCHANGED clientVars
  BY <1>4 DEF ResetMetrics, ResetInjection, ResetGraph
<1> QED
  BY <1>1, <1>2, <1>3, <1>4 DEF ConsoleNext

LEMMA ToolsStep ==
  ASSUME [ToolsNext]_toolsVars
  PROVE  /\ [EbaNext]_ebaVars /\ [SimNext]_simVars /\ [ScaleNext]_scaleVars
         /\ [DeployNext]_deployVars /\ [ScorecardNext]_scorecardVars
         /\ [PatternNext]_patternVars /\ [ClientNext]_clientVars
         /\ \/ ConsoleNext
            \/ UNCHANGED consoleOnly
<1>1. UNCHANGED ebaTools => UNCHANGED ebaVars /\ UNCHANGED simVars /\ UNCHANGED patternVars
  BY DEF ebaTools
<1>2. UNCHANGED demoTools => UNCHANGED consoleOnly /\ UNCHANGED clientVars
  BY DEF demoTools
<1>3. UNCHANGED shellTools =>
        UNCHANGED scaleVars /\ UNCHANGED deployVars /\ UNCHANGED scorecardVars
  BY DEF shellTools
<1>4. UNCHANGED toolsVars => UNCHANGED ebaTools /\ UNCHANGED demoTools /\ UNCHANGED shellTools
  BY DEF toolsVars
<1>5. CASE ToolsNext
  <2>1. CASE EbaNext /\ UNCHANGED <<simVars, patternVars, demoTools, shellTools>>
    BY <1>2, <1>3, <2>1
  <2>2. CASE SimNext /\ UNCHANGED <<ebaVars, patternVars, demoTools, shellTools>>
    BY <1>2, <1>3, <2>2
  <2>3. CASE PatternNext /\ UNCHANGED <<ebaVars, simVars, demoTools, shellTools>>
    BY <1>2, <1>3, <2>3
  <2>4. CASE ClientNext /\ UNCHANGED <<ebaTools, consoleOnly, shellTools>>
    BY <1>1, <1>3, <2>4
  <2>5. CASE ConsoleNext /\ UNCHANGED <<ebaTools, shellTools>>
    BY <1>1, <1>3, <2>5, ConsoleLeavesClient
  <2>6. CASE ScaleNext /\ UNCHANGED <<ebaTools, demoTools, deployVars, scorecardVars>>
    BY <1>1, <1>2, <2>6
  <2>7. CASE DeployNext /\ UNCHANGED <<ebaTools, demoTools, scaleVars, scorecardVars>>
    BY <1>1, <1>2, <2>7
  <2>8. CASE ScorecardNext /\ UNCHANGED <<ebaTools, demoTools, scaleVars, deployVars>>
    BY <1>1, <1>2, <2>8
  <2> QED
    BY <1>5, <2>1, <2>2, <2>3, <2>4, <2>5, <2>6, <2>7, <2>8 DEF ToolsNext
<1> QED
  BY <1>1, <1>2, <1>3, <1>4, <1>5

\* However calls fail and the runs of several shells, operators and runners interleave: what the
\* scripts say in the end of the scale of the platform, of the password they made up and of the
\* model their scorecard is about is so, but for the failures and crossings named there
\* (scale-to-min.sh, scale-to-prod.sh, deploy.sh, teardown.sh, run_rai_scorecard.sh,
\* register_submit.py).
THEOREM EstateIsAsReported == ToolsSpec => []EstateAsReported
<1> DEFINE Inv == ScaleInv /\ PasswordInv /\ ScorecardInv
<1>1. MCInit => Inv
  BY ScaleStart, PasswordInit, ScorecardStart DEF MCInit
<1>2. Inv /\ [ToolsNext]_toolsVars => Inv'
  BY ToolsStep, ScaleStep, PasswordNext, ScorecardStep
<1>3. Inv => EstateAsReported
  BY ScaledIsReported DEF EstateAsReported, PasswordInv, ScorecardInv
<1> QED
  BY <1>1, <1>2, <1>3, PTL DEF ToolsSpec

\* Whatever the tabs run, and however clicks on Clear, their requests, injections and the one
\* request for the graph interleave: after a Clear the illustrative ring is not shown, unless an
\* injection was recorded while a reset or that request was under way (_record_injection,
\* fraud_ring_graph, the /api/reset of Handler.do_GET).
THEOREM ClearedGraphStays == ToolsSpec => []ClearedGraphStaysCleared
<1>1. MCInit => GraphInv
  BY GraphStart DEF MCInit
<1>2. GraphInv /\ [ToolsNext]_toolsVars => GraphInv'
  BY ToolsStep, GraphStep
<1>3. GraphInv => ClearedGraphStaysCleared
  BY DEF GraphInv
<1> QED
  BY <1>1, <1>2, <1>3, PTL DEF ToolsSpec

\* A run that ends with a report accounts for all its requests in it, and leaves no worker and
\* nothing in the queue: what RunIsAccountedFor promises of the end, without that it comes
\* (_drive, RunResult.summary, write_reports).
THEOREM ReportAccounts == ToolsSpec => [](phase \in {"exit 0", "exit 2"} => Accounted)
<1>1. MCInit => SimInv
  BY SimStart DEF MCInit
<1>2. SimInv /\ [ToolsNext]_toolsVars => SimInv'
  BY ToolsStep, SimStep
<1> QED
  BY <1>1, <1>2, SimAccounts, PTL DEF ToolsSpec

\* Whatever the tabs run, and however clicks on Clear interleave with it: what the seed's comments
\* and the scenarios' texts promise is what is decided; while nothing is under way the pages and
\* the operations view have counted the same; and this view, which takes the declined for the cases
\* opened, reports no fewer than were: unless one of the events it cannot tell apart came in
\* between (demo_scenarios.py, seed_data.py, countDecision, MetricsStore, agentic_case_events).
THEOREM ConsoleIsTruthful == ToolsSpec => []ConsoleTellsTheTruth
<1> DEFINE Inv == GraphInv /\ CaseInv /\ PageInv
<1>1. MCInit => Inv
  BY GraphStart, CaseStart, PageStart DEF MCInit
<1>2. Inv /\ [ToolsNext]_toolsVars => Inv'
  BY ToolsStep, GraphStep, CaseStep, PageStep
<1>3. Inv => ConsoleTellsTheTruth
  BY TruthIsTold
<1> QED
  BY <1>1, <1>2, <1>3, PTL DEF ToolsSpec

\* In every state of every tool: the annexes of a filed report add up to the rows it was made
\* from and are of the quarter before its month (to_annex_a, to_annex_b, previous_quarter); the
\* load generator's queue never holds more than its room, nor more errors are kept than are to be
\* (_producer, _worker); a stream meets its cards and merchants as its scenario plans them
\* (TransactionGenerator); the client's exit code tells whether a request failed, and the blocked
\* card is declined whatever model is deployed (demo_client.py); a closed tab counts nothing
\* (demo_web.py); the scripts touch what they name, count their outages, and no scorecard goes by a
\* version that was not registered (scale-to-min.sh, deploy.sh, register_submit.py).
THEOREM ToolsTypesCorrect == ToolsSpec => []ToolsTypeOK
<1> DEFINE Tools == FiledInv /\ aggregates \in BOOLEAN /\ SimInv /\ PatternInv
<1> DEFINE Demos == ClientInv /\ GraphInv /\ CaseInv
<1> DEFINE Shell == ScaleInv /\ PasswordInv /\ DeployTypeOK /\ ScorecardInv /\ VersionsAreKnown
<1>1. MCInit => Tools /\ Demos /\ Shell
  <2> SUFFICES ASSUME MCInit PROVE Tools /\ Demos /\ Shell
    OBVIOUS
  <2>1. Tools
    BY FiledInit, SimStart, PatternStart DEF MCInit, EbaInit
  <2>2. Demos
    BY ClientStart, GraphStart, CaseStart DEF MCInit, ConsoleInit
  <2>3. Shell
    BY ScaleStart, PasswordInit, DeployTypesStart, ScorecardStart, VersionsStart DEF MCInit
  <2> QED
    BY <2>1, <2>2, <2>3
<1>2. Tools /\ Demos /\ Shell /\ [ToolsNext]_toolsVars => (Tools /\ Demos /\ Shell)'
  <2> SUFFICES ASSUME Tools, Demos, Shell, [ToolsNext]_toolsVars
               PROVE  (Tools /\ Demos /\ Shell)'
    OBVIOUS
  <2>1. Tools'
    BY ToolsStep, FiledNext, AggregatesStay, SimStep, PatternStep
  <2>2. Demos'
    BY ToolsStep, ClientStep, GraphStep, CaseStep
  <2>3. Shell'
    BY ToolsStep, ScaleStep, PasswordNext, DeployTypesNext, ScorecardStep, VersionsStep
  <2> QED
    BY <2>1, <2>2, <2>3
<1>3. Tools /\ Demos /\ Shell => ToolsTypeOK
  <2> SUFFICES ASSUME Tools, Demos, Shell PROVE ToolsTypeOK
    OBVIOUS
  <2>1. EbaTypeOK /\ SimTypeOK /\ PatternTypeOK
    BY EbaTyped, SimTyped, PatternTyped
  <2>2. ClientTypeOK /\ ConsoleTypeOK
    BY ClientTyped, ConsoleTyped
  <2>3. ScaleTypeOK /\ DeployTypeOK /\ ScorecardTypeOK
    BY ScaleTyped, ScorecardTyped
  <2> QED
    BY <2>1, <2>2, <2>3 DEF ToolsTypeOK
<1> QED
  BY <1>1, <1>2, <1>3, PTL DEF ToolsSpec
=============================================================================
