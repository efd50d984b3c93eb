---------------------------- MODULE AddonProofs ----------------------------
(***************************************************************************)
(* Proofs about Addon: its variables keep their types, and the files of    *)
(* the pair survive starts that are cut off anywhere, for any tasks, pairs *)
(* and bounds.                                                             *)
(***************************************************************************)
EXTENDS Addon, TLAPS

(* What the two files can be: no key without its certificate, nothing relied on
   that is not in both; and the pair being made is not in the key's file yet. *)
FilesInv ==
  /\ keyFile # NoFile => certFile \in Pairs
  /\ keyFile \in Pairs => certFile = keyFile
  /\ relied # {} => keyFile \in Pairs /\ relied = {keyFile}
  /\ loading \in {"cert", "between", "key"} =>
       pair.cert \in Pairs /\ pair.key = pair.cert /\ relied = {}
  /\ loading \in {"cert", "between"} => keyFile = NoFile
  /\ loading \in {"between", "key"} => certFile = pair.cert
  /\ loading = "done" => pair.cert \in Pairs /\ pair.key = pair.cert /\ keyFile = pair.key
  /\ loading = "failed" => keyFile = Cut

CertInv == CertTypeOK /\ FilesInv

(* A step of load_or_generate keeps the files in order. *)
LEMMA LoadInductive == CertInv /\ LoadStep => CertInv'
<1> SUFFICES ASSUME CertInv, LoadStep  PROVE CertInv'
  OBVIOUS
<1> USE CertAssumption DEF CertInv, CertTypeOK, FilesInv
<1>1. CASE Loads
  <2>1. CASE {certFile, keyFile} \subseteq Pairs
    BY <2>1, <1>1 DEF Loads, Present, Return
  <2>2. CASE ~({certFile, keyFile} \subseteq Pairs)
    BY <2>2, <1>1 DEF Loads, Present
  <2> QED  BY <2>1, <2>2
<1>2. CASE Generates
  BY <1>2 DEF Generates, Present
<1>3. CASE CertWritten
  BY <1>3 DEF CertWritten
<1>4. CASE KeyOpened
  BY <1>4 DEF KeyOpened
<1>5. CASE KeyWritten
  BY <1>5 DEF KeyWritten, Return
<1>6. CASE IOFails
  BY <1>6 DEF IOFails
<1> QED  BY <1>1, <1>2, <1>3, <1>4, <1>5, <1>6 DEF LoadStep

(* The beginning and the end of a process keep them too. *)
LEMMA ProcessInductive ==
  CertInv /\ (BeginLoad \/ ForgetPair \/ UNCHANGED certVars) => CertInv'
<1> SUFFICES ASSUME CertInv, BeginLoad \/ ForgetPair \/ UNCHANGED certVars  PROVE CertInv'
  OBVIOUS
<1> QED
  BY CertAssumption
  DEF BeginLoad, ForgetPair, NoPair, certVars, CertInv, CertTypeOK, FilesInv

(* Every step of the process is one of these to the files (main.py). *)
LEMMA StepsOfFiles ==
  [Next]_vars => LoadStep \/ BeginLoad \/ ForgetPair \/ UNCHANGED certVars
BY DEF Next, vars, certVars, Starts, MainStep, Loading, StartFails, Joined, CleanedUp, Exit,
       Signalled, Killed, RelayStep, ConnectionEnds, Publishes, Activity, HomeAssistant,
       CancelDelivered

(* The files are in order throughout (load_or_generate). *)
THEOREM FilesInOrder == Spec => []CertInv
<1>1. Init => CertInv
  BY CertAssumption DEF Init, CertInit, NoPair, CertInv, CertTypeOK, FilesInv
<1>2. CertInv /\ [Next]_vars => CertInv'
  BY StepsOfFiles, LoadInductive, ProcessInductive
<1> QED  BY <1>1, <1>2, PTL DEF Spec

(* A running add-on has the key of every certificate subscriptions were made
   with, wherever earlier starts were cut off or failed (load_or_generate). *)
THEOREM StillDecrypts == Spec => []KeepsDecrypting
<1>1. CertInv => KeepsDecrypting
  BY DEF CertInv, FilesInv, KeepsDecrypting
<1> QED  BY <1>1, FilesInOrder, PTL

(* Only a start cut off within the writing of the key leaves files that later ones
   cannot load. *)
THEOREM FailsOnlyWhenCut == Spec => []FailsOnlyCut
<1>1. CertInv => FailsOnlyCut
  BY DEF CertInv, FilesInv, FailsOnlyCut
<1> QED  BY <1>1, FilesInOrder, PTL

(***************************************************************************)
(* Types.                                                                  *)
(***************************************************************************)

(* The type invariant without the certificate's part. *)
ProcessTypeOK ==
  /\ HealthTypeOK
  /\ main \in {"down", "start", "run", "join", "cleanup"}
  /\ alive \subseteq Tasks /\ cancelled \subseteq alive
  /\ (main \in {"down", "start", "run"} => cancelled = {})
  /\ link \in {"sleep", "dial", "listen", "reap"}

(* Figures with one of them replaced are figures (Health.update). *)
LEMMA FigureSet ==
  ASSUME NEW f \in Figures
  PROVE  /\ \A b \in BOOLEAN : [f EXCEPT !["link"] = b] \in Figures
         /\ \A n \in 0..MaxActivity : [f EXCEPT !["activity"] = n] \in Figures
BY DEF Figures

(* An update of the relay's figure keeps the types of the figures. *)
LEMMA UpdateType ==
  ASSUME HealthTypeOK, NEW b \in BOOLEAN, Update("link", b)
  PROVE  HealthTypeOK'
<1>1. health' \in Figures
  BY FigureSet DEF Update, HealthTypeOK
<1> QED  BY <1>1 DEF Update, HealthTypeOK

(* The end of a process leaves the figures of a new one. *)
LEMMA ForgetHealthType ==
  ASSUME HealthTypeOK, ForgetHealth
  PROVE  HealthTypeOK'
<1>1. NoFigures \in Figures /\ 0 \in 0..Len(Sensors)
  BY HealthAssumption DEF NoFigures, Figures, Sensors
<1> QED  BY <1>1 DEF ForgetHealth, HealthTypeOK

(* A step of _publish_once keeps the types. *)
LEMMA PublishType ==
  ASSUME HealthTypeOK, PublishStep
  PROVE  HealthTypeOK'
<1>1. Len(Sensors) = 2 /\ Sensors[1] = "link" /\ Sensors[2] = "activity"
  BY DEF Sensors
<1>2. CASE TakesSnapshot
  BY <1>1, <1>2 DEF TakesSnapshot, HealthTypeOK
<1>3. CASE Posts
  <2>1. at' \in 0..Len(Sensors) /\ at \in {1, 2}
    BY <1>1, <1>3 DEF Posts, NextSensor, HealthTypeOK
  <2>2. snap.link \in BOOLEAN /\ snap.activity \in 0..MaxActivity
    BY DEF HealthTypeOK, Figures
  <2>3. CASE at = 1
    <3>1. shown' = shown \/ shown' = [shown EXCEPT !["link"] = snap["link"]]
      BY <1>1, <1>3, <2>3 DEF Posts
    <3>2. late' \subseteq late \cup {<<"link", snap["link"]>>}
      BY <1>1, <1>3, <2>3 DEF Posts
    <3>3. shown' \in Figures
      BY <3>1, <2>2, FigureSet DEF HealthTypeOK
    <3> QED
      BY <2>1, <2>2, <3>2, <3>3, <1>3, HealthAssumption DEF Posts, HealthTypeOK
  <2>4. CASE at = 2
    <3>1. shown' = shown \/ shown' = [shown EXCEPT !["activity"] = snap["activity"]]
      BY <1>1, <1>3, <2>4 DEF Posts
    <3>2. late' \subseteq late \cup {<<"activity", snap["activity"]>>}
      BY <1>1, <1>3, <2>4 DEF Posts
    <3>3. shown' \in Figures
      BY <3>1, <2>2, FigureSet DEF HealthTypeOK
    <3> QED
      BY <2>1, <2>2, <3>2, <3>3, <1>3, HealthAssumption DEF Posts, HealthTypeOK
  <2> QED  BY <2>1, <2>3, <2>4
<1> QED  BY <1>2, <1>3 DEF PublishStep

(* A post handled late keeps the types. *)
LEMMA LateType ==
  ASSUME HealthTypeOK, HandledLate
  PROVE  HealthTypeOK'
<1>1. PICK p \in late : shown' = [shown EXCEPT ![p[1]] = p[2]] /\ late' = late \ {p}
  BY DEF HandledLate
<1>2. shown' \in Figures
  <2>1. CASE p \in {"link"} \X BOOLEAN
    BY <2>1, <1>1, FigureSet DEF HealthTypeOK
  <2>2. CASE p \in {"activity"} \X (0..MaxActivity)
    BY <2>2, <1>1, FigureSet DEF HealthTypeOK
  <2> QED  BY <2>1, <2>2 DEF HealthTypeOK
<1> QED  BY <1>1, <1>2 DEF HandledLate, HealthTypeOK

(* The end of the process keeps the types. *)
LEMMA ExitType ==
  ASSUME ProcessTypeOK, Exit
  PROVE  ProcessTypeOK'
BY ForgetHealthType DEF Exit, ProcessTypeOK

(* Every step keeps the types of process, tasks and figures. *)
LEMMA ProcessTypeInductive == ProcessTypeOK /\ [Next]_vars => ProcessTypeOK'
<1> SUFFICES ASSUME ProcessTypeOK, [Next]_vars  PROVE ProcessTypeOK'
  OBVIOUS
<1>h. HealthTypeOK
  BY DEF ProcessTypeOK
<1>u. UNCHANGED healthVars => HealthTypeOK'
  BY <1>h DEF healthVars, HealthTypeOK
<1>1. CASE Starts
  BY <1>1, <1>u DEF Starts, ProcessTypeOK
<1>2. CASE Loading
  BY <1>2, <1>u DEF Loading, ProcessTypeOK
<1>3. CASE StartFails \/ CleanedUp \/ Killed
  BY <1>3, ExitType DEF StartFails, CleanedUp, Killed
<1>4. CASE Joined
  BY <1>4, <1>u DEF Joined, ProcessTypeOK
<1>5. CASE Signalled
  BY <1>5, <1>u DEF Signalled, ProcessTypeOK
<1>6. CASE RelayStep
  <2>1. link' \in {"sleep", "dial", "listen"} /\ HealthTypeOK'
    BY <1>6, <1>h, <1>u, UpdateType DEF RelayStep, Sleeps, Dials, Reaped, LoopEnds
  <2> QED  BY <2>1, <1>6 DEF RelayStep, ProcessTypeOK
<1>7. CASE ConnectionEnds
  BY <1>7, <1>u DEF ConnectionEnds, ProcessTypeOK
<1>8. CASE Publishes
  BY <1>8, <1>h, PublishType DEF Publishes, ProcessTypeOK
<1>9. CASE Activity
  <2>1. health.activity + 1 \in 0..MaxActivity
    BY <1>9, <1>h, HealthAssumption DEF Activity, HealthTypeOK, Figures
  <2>2. health' \in Figures
    BY <2>1, <1>9, <1>h, FigureSet DEF Activity, Update, HealthTypeOK
  <2> QED  BY <2>2, <1>9, <1>h DEF Activity, Update, HealthTypeOK, ProcessTypeOK
<1>10. CASE HomeAssistant
  BY <1>10, <1>h, LateType DEF HomeAssistant, ProcessTypeOK
<1>11. ASSUME NEW t \in Tasks, CancelDelivered(t)  PROVE ProcessTypeOK'
  <2>1. /\ link' \in {"sleep", "dial", "listen", "reap"} /\ HealthTypeOK'
        /\ alive' \subseteq Tasks /\ cancelled' \subseteq alive'
    BY <1>11, <1>h, <1>u, UpdateType DEF CancelDelivered, LoopEnds, ProcessTypeOK
  <2> QED  BY <2>1, <1>11 DEF CancelDelivered, ProcessTypeOK
<1>12. CASE UNCHANGED vars
  BY <1>12, <1>u DEF vars, ProcessTypeOK
<1> QED
  BY <1>1, <1>2, <1>3, <1>4, <1>5, <1>6, <1>7, <1>8, <1>9, <1>10, <1>11, <1>12
  DEF Next, MainStep

(* Every variable of the process keeps its type (main.py). *)
THEOREM AddonTypeCorrect == Spec => []AddonTypeOK
<1>1. Init => ProcessTypeOK
  BY HealthAssumption
  DEF Init, HealthInit, NoFigures, Figures, Sensors, HealthTypeOK, ProcessTypeOK
<1>2. Spec => []ProcessTypeOK
  BY <1>1, ProcessTypeInductive, PTL DEF Spec
<1>3. CertInv /\ ProcessTypeOK => AddonTypeOK
  BY DEF CertInv, ProcessTypeOK, AddonTypeOK
<1> QED  BY <1>2, <1>3, FilesInOrder, PTL
=============================================================================
