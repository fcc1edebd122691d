----------------------- MODULE ConcurrentConvertersProofs ----------------------
(***************************************************************************)
(* What runs of the converter that overlap do to each other's files, for   *)
(* any list of files: what holds for any number of runs, and what holds    *)
(* for two and no longer for three.                                        *)
(***************************************************************************)
EXTENDS ConcurrentConverters, TLAPS

(* The file at hand is one of the input.                                   *)
LEMMA FilesType ==
  /\ Len(files) \in Nat /\ DOMAIN files = 1 .. Len(files)
  /\ \A k \in 1 .. Len(files) : files[k] \in File
  /\ \A f \in File : \E k \in 1 .. Len(files) : f = files[k]
<1>1. files \in Seq(Range(files))
  BY FilesAssumption DEF FilesAssumption
<1>2. Len(files) \in Nat /\ DOMAIN files = 1 .. Len(files)
  BY <1>1
<1> QED
  BY <1>2 DEF File, Range

LEMMA FileType ==
  ASSUME TypeOK, ProgressInv, NEW r \in Run, pc[r] \in AtFile
  PROVE  /\ i[r] \in 1 .. Len(files)
         /\ file(r) \in File
BY FilesType DEF TypeOK, ProgressInv, file

(* What the type invariant says of the temporary bags and of the outputs.  *)
BagsType(bags) ==
    /\ DOMAIN bags \subseteq File
    /\ \A f \in DOMAIN bags : bags[f] \in [creator : Run, data : BOOLEAN]

OutsType(outs) ==
    /\ DOMAIN outs \subseteq File
    /\ \A f \in DOMAIN outs : outs[f] \in Run

LEMMA BagPut ==
  ASSUME NEW bags, BagsType(bags), NEW f \in File, NEW bag \in [creator : Run, data : BOOLEAN]
  PROVE  BagsType(Put(bags, f, bag))
<1>1. DOMAIN Put(bags, f, bag) = DOMAIN bags \cup {f}
  BY DEF Put
<1>2. \A g \in DOMAIN bags \cup {f} : Put(bags, f, bag)[g] = IF g = f THEN bag ELSE bags[g]
  BY DEF Put
<1> QED
  BY <1>1, <1>2 DEF BagsType

LEMMA BagDropped ==
  ASSUME NEW bags, BagsType(bags), NEW f
  PROVE  BagsType(Drop(bags, f))
<1>1. DOMAIN Drop(bags, f) = DOMAIN bags \ {f}
  BY DEF Drop
<1>2. \A g \in DOMAIN bags \ {f} : Drop(bags, f)[g] = bags[g]
  BY DEF Drop
<1> QED
  BY <1>1, <1>2 DEF BagsType

LEMMA BagEmptied ==
  ASSUME NEW bags, BagsType(bags), NEW f \in DOMAIN bags,
         NEW emptied, emptied = [bags EXCEPT ![f].data = FALSE]
  PROVE  BagsType(emptied)
<1>1. DOMAIN emptied = DOMAIN bags /\ \A g \in DOMAIN bags \ {f} : emptied[g] = bags[g]
  OBVIOUS
<1>2. emptied[f] = [bags[f] EXCEPT !.data = FALSE]
  OBVIOUS
<1>3. bags[f] \in [creator : Run, data : BOOLEAN]
  BY DEF BagsType
<1>4. emptied[f] \in [creator : Run, data : BOOLEAN]
  BY <1>2, <1>3
<1> QED
  BY <1>1, <1>4 DEF BagsType

LEMMA OutPut ==
  ASSUME NEW outs, OutsType(outs), NEW f \in File, NEW r \in Run
  PROVE  OutsType(Put(outs, f, r))
<1>1. DOMAIN Put(outs, f, r) = DOMAIN outs \cup {f}
  BY DEF Put
<1>2. \A g \in DOMAIN outs \cup {f} : Put(outs, f, r)[g] = IF g = f THEN r ELSE outs[g]
  BY DEF Put
<1> QED
  BY <1>1, <1>2 DEF OutsType

LEMMA TypeParts ==
  TypeOK <=>
    /\ pc \in [Run -> Ended \cup {"next_file", "exists_bag", "open", "convert", "discard",
                                  "discard_dir", "unwrap", "rename", "remove_bag",
                                  "remove_dir"}]
    /\ i \in [Run -> 1 .. Len(files) + 1]
    /\ ret \in [Run -> {0, 1}]
    /\ BagsType(bag_tmp) /\ OutsType(out)
    /\ written \subseteq Run \X File
<1>1. Range(out) \subseteq Run <=> \A f \in DOMAIN out : out[f] \in Run
  BY DEF Range
<1> QED
  BY <1>1 DEF TypeOK, BagsType, OutsType

(* A result is lost only where no other run does anything more.            *)
LossKnown ==
    \A r \in Run, f \in File :
        <<r, f>> \in written /\ ~Held(f) => \A q \in Run \ {r} : Failed(q)

--------------------------------------------------------------------------------
(* Any number of runs.                                                     *)

(* Nothing has happened before the first step.                             *)
LEMMA InitInv ==
  Init => TypeOK /\ ProgressInv /\ BagsOwned /\ OutAppearsComplete /\ LossKnown
<1> SUFFICES ASSUME Init
             PROVE  TypeOK /\ ProgressInv /\ BagsOwned /\ OutAppearsComplete /\ LossKnown
  OBVIOUS
<1>1. 1 \in 1 .. Len(files) + 1 /\ DOMAIN out = {} /\ DOMAIN bag_tmp = {}
  BY FilesType DEF Init
<1>2. TypeOK
  BY <1>1, TypeParts DEF Init, BagsType, OutsType
<1>3. ProgressInv
  <2>1. 1 .. 1 - 1 = {}
    OBVIOUS
  <2> QED
    BY <2>1 DEF Init, ProgressInv, AtFile, Renamed
<1> QED
  BY <1>1, <1>2, <1>3 DEF Init, BagsOwned, Working, OutAppearsComplete, LossKnown

(* A step of any run keeps the types.                                      *)
LEMMA StepType ==
  ASSUME TypeOK, ProgressInv, NEW r \in Run, RunStep(r)
  PROVE  TypeOK'
<1> DEFINE Labels == Ended \cup {"next_file", "exists_bag", "open", "convert", "discard",
                                 "discard_dir", "unwrap", "rename", "remove_bag",
                                 "remove_dir"}
<1>1. /\ pc \in [Run -> Labels]
      /\ i \in [Run -> 1 .. Len(files) + 1]
      /\ ret \in [Run -> {0, 1}]
      /\ BagsType(bag_tmp) /\ OutsType(out)
      /\ written \subseteq Run \X File
  BY TypeParts
<1>2. pc[r] \in AtFile => i[r] \in 1 .. Len(files) /\ file(r) \in File
  BY FileType
<1>3. pc' \in [Run -> Labels] /\ ret' \in [Run -> {0, 1}]
  BY <1>1 DEF RunStep, NextFile, ExistsBag, OpenBags, Convert, ConvertFails, Discard,
              DiscardDir, Break, Unwrap, Rename, RemoveBag, RemoveDir, Crash, GoTo, Fail, Ended
<1>4. i' \in [Run -> 1 .. Len(files) + 1]
  <2>1. ASSUME pc[r] \in AtFile, Advance(r)
        PROVE  i' \in [Run -> 1 .. Len(files) + 1]
    <3>1. i[r] + 1 \in 1 .. Len(files) + 1
      BY <1>2, <2>1, FilesType
    <3> QED
      BY <1>1, <2>1, <3>1 DEF Advance
  <2> QED
    BY <1>1, <2>1 DEF RunStep, NextFile, ExistsBag, OpenBags, Convert, Discard, DiscardDir,
                      Break, Unwrap, Rename, RemoveBag, RemoveDir, Crash, AtFile
<1>5. BagsType(bag_tmp')
  <2>1. CASE OpenBags(r)
    <3>1. CASE bag_tmp' = Put(bag_tmp, file(r), [creator |-> r, data |-> TRUE])
      <4>1. file(r) \in File
        BY <1>2, <2>1 DEF OpenBags, AtFile
      <4> QED
        BY <1>1, <3>1, <4>1, BagPut
    <3> QED
      BY <1>1, <2>1, <3>1 DEF OpenBags, CreateBag
  <2>2. CASE bag_tmp' = Drop(bag_tmp, file(r))
    BY <1>1, <2>2, BagDropped
  <2>3. CASE file(r) \in DOMAIN bag_tmp /\ bag_tmp' = [bag_tmp EXCEPT ![file(r)].data = FALSE]
    BY <1>1, <2>3, BagEmptied
  <2> QED
    BY <1>1, <2>1, <2>2, <2>3
       DEF RunStep, NextFile, ExistsBag, Convert, Discard, DiscardDir, Contents, Directory,
           NothingThere, Unwrap, Rename, RemoveBag, RemoveDir, Crash
<1>6. OutsType(out')
  <2>1. ASSUME file(r) \in DOMAIN bag_tmp,
               out' = Put(out, file(r), bag_tmp[file(r)].creator)
        PROVE  OutsType(out')
    <3>1. file(r) \in File /\ bag_tmp[file(r)].creator \in Run
      BY <1>1, <2>1 DEF BagsType
    <3> QED
      BY <1>1, <2>1, <3>1, OutPut
  <2> QED
    BY <1>1, <2>1 DEF RunStep, NextFile, ExistsBag, OpenBags, Convert, Discard, DiscardDir,
                      Unwrap, Rename, RemoveBag, RemoveDir, Crash
<1>7. written' \subseteq Run \X File
  BY <1>1, <1>2 DEF RunStep, NextFile, ExistsBag, OpenBags, Convert, Discard, DiscardDir,
                    Unwrap, Rename, RemoveBag, RemoveDir, Crash, AtFile
<1> HIDE DEF Labels
<1>8. Range(out') \subseteq Run
  BY <1>6 DEF OutsType, Range
<1> QED
  BY <1>3, <1>4, <1>5, <1>6, <1>7, <1>8 DEF TypeOK, BagsType, OutsType, Labels

(* No step takes an output away.                                           *)
LEMMA OutsGrow ==
  ASSUME NEW r \in Run, RunStep(r)
  PROVE  /\ DOMAIN out \subseteq DOMAIN out'
         /\ written \subseteq written'
<1>1. ASSUME NEW v, out' = Put(out, file(r), v)
      PROVE  DOMAIN out \subseteq DOMAIN out'
  BY <1>1 DEF Put
<1> QED
  BY <1>1 DEF RunStep, NextFile, ExistsBag, OpenBags, Convert, Discard, DiscardDir, Unwrap,
              Rename, RemoveBag, RemoveDir, Crash

(* A step of one run leaves where the others are and what they return.     *)
LEMMA OthersStay ==
  ASSUME TypeOK, NEW r \in Run, RunStep(r), NEW q \in Run \ {r}
  PROVE  /\ pc'[q] = pc[q] /\ i'[q] = i[q] /\ ret'[q] = ret[q]
         /\ file(q)' = file(q)
         /\ \A f : <<q, f>> \in written' => <<q, f>> \in written
<1>1. DOMAIN pc = Run /\ DOMAIN i = Run /\ DOMAIN ret = Run
  BY DEF TypeOK
<1>2. pc'[q] = pc[q] /\ i'[q] = i[q] /\ ret'[q] = ret[q]
  BY <1>1 DEF RunStep, NextFile, ExistsBag, OpenBags, Convert, ConvertFails, Discard,
              DiscardDir, Break, Unwrap, Rename, RemoveBag, RemoveDir, Crash, GoTo, Fail,
              Advance
<1>3. \A f : <<q, f>> \in written' => <<q, f>> \in written
  BY DEF RunStep, NextFile, ExistsBag, OpenBags, Convert, Discard, DiscardDir, Unwrap,
         Rename, RemoveBag, RemoveDir, Crash
<1> QED
  BY <1>2, <1>3 DEF file

(* What one run does leaves the progress of the others.                    *)
LEMMA StepProgress ==
  ASSUME TypeOK, ProgressInv, NEW r \in Run, RunStep(r)
  PROVE  ProgressInv'
<1>1. /\ DOMAIN out \subseteq DOMAIN out'
      /\ DOMAIN pc = Run /\ DOMAIN i = Run /\ DOMAIN ret = Run
      /\ \A q \in Run : i[q] \in 1 .. Len(files) + 1
      /\ Len(files) \in Nat
  BY OutsGrow, FilesType DEF TypeOK
<1> DEFINE Done(q) == \A j \in 1 .. i[q] - 1 : files[j] \in DOMAIN out
           Converted(q) ==
             \A f \in File : <<q, f>> \in written =>
                \/ \E j \in 1 .. i[q] - 1 : f = files[j]
                \/ /\ i[q] <= Len(files) /\ f = file(q)
                   /\ pc[q] \in Ended \cup (Working \ {"convert"})
           Place(q) ==
             /\ pc[q] \in AtFile => i[q] <= Len(files)
             /\ pc[q] \in {"discard", "discard_dir"} => ret[q] = 1
             /\ pc[q] \in Renamed => file(q) \in DOMAIN out
             /\ pc[q] = "exited" /\ ret[q] = 0 => i[q] > Len(files)
<1>2. \A q \in Run : Done(q) /\ Converted(q) /\ Place(q)
  BY DEF ProgressInv
<1>3. \A q \in Run \ {r} : Done(q)' /\ Converted(q)' /\ Place(q)'
  <2> SUFFICES ASSUME NEW q \in Run \ {r}
               PROVE  Done(q)' /\ Converted(q)' /\ Place(q)'
    OBVIOUS
  <2>1. /\ pc'[q] = pc[q] /\ i'[q] = i[q] /\ ret'[q] = ret[q] /\ file(q)' = file(q)
        /\ \A f : <<q, f>> \in written' => <<q, f>> \in written
    BY OthersStay
  <2>2. Done(q)'
    BY <1>1, <1>2, <2>1
  <2>3. Converted(q)'
    BY <1>2, <2>1
  <2>4. Place(q)'
    BY <1>1, <1>2, <2>1
  <2> QED
    BY <2>2, <2>3, <2>4
<1>4. Place(r)'
  <2> USE <1>1, <1>2 DEF GoTo, Fail, file, AtFile, Renamed
  <2>1. CASE NextFile(r)
    BY <2>1 DEF NextFile
  <2>2. CASE ExistsBag(r)
    BY <2>2 DEF ExistsBag
  <2>3. CASE OpenBags(r)
    BY <2>3 DEF OpenBags
  <2>4. CASE Convert(r)
    BY <2>4 DEF Convert, ConvertFails
  <2>5. CASE Discard(r)
    BY <2>5 DEF Discard, Break
  <2>6. CASE DiscardDir(r)
    BY <2>6 DEF DiscardDir, Break
  <2>7. CASE Unwrap(r)
    BY <2>7 DEF Unwrap
  <2>8. CASE Rename(r)
    <3>1. ASSUME NEW v, out' = Put(out, file(r), v)
          PROVE  file(r) \in DOMAIN out'
      BY <3>1 DEF Put
    <3> QED
      BY <2>8, <3>1 DEF Rename
  <2>9. CASE RemoveBag(r)
    BY <2>9 DEF RemoveBag
  <2>10. CASE RemoveDir(r)
    BY <2>10 DEF RemoveDir
  <2>11. CASE Crash(r)
    BY <2>11 DEF Crash
  <2> QED
    BY <2>1, <2>2, <2>3, <2>4, <2>5, <2>6, <2>7, <2>8, <2>9, <2>10, <2>11 DEF RunStep
<1>5. Done(r)' /\ Converted(r)'
  <2>1. CASE pc[r] \in Renamed /\ Advance(r) /\ UNCHANGED <<out, written>>
    <3>1. i'[r] = i[r] + 1 /\ file(r) \in DOMAIN out /\ pc[r] \in AtFile
      BY <1>1, <1>2, <2>1 DEF Advance, Renamed, AtFile
    <3>2. \A j \in 1 .. i'[r] - 1 : j = i[r] \/ j \in 1 .. i[r] - 1
      BY <1>1, <3>1
    <3>3. i[r] \in 1 .. i'[r] - 1 /\ \A j \in 1 .. i[r] - 1 : j \in 1 .. i'[r] - 1
      BY <1>1, <3>1
    <3>4. Done(r)'
      BY <1>2, <2>1, <3>1, <3>2 DEF file
    <3>5. Converted(r)'
      BY <1>2, <2>1, <3>3 DEF file
    <3> QED
      BY <3>4, <3>5
  <2>2. CASE i' = i /\ UNCHANGED written
             /\ (pc[r] \in Working \ {"convert"} => pc'[r] \in Ended \cup (Working \ {"convert"}))
    <3>1. pc[r] \notin Ended
      BY DEF RunStep, NextFile, ExistsBag, OpenBags, Convert, Discard, DiscardDir, Unwrap,
             Rename, RemoveBag, RemoveDir, Crash, Ended
    <3>2. Done(r)'
      BY <1>1, <1>2, <2>2
    <3>3. Converted(r)'
      BY <1>2, <2>2, <3>1 DEF file
    <3> QED
      BY <3>2, <3>3
  <2>3. CASE i' = i /\ pc'[r] = "unwrap" /\ pc[r] = "convert"
             /\ written' = written \cup {<<r, file(r)>>}
    <3>1. Done(r)'
      BY <1>1, <1>2, <2>3
    <3>2. pc[r] \in AtFile /\ i[r] <= Len(files)
      BY <1>2, <2>3 DEF AtFile
    <3>3. Converted(r)'
      BY <1>2, <2>3, <3>2 DEF file, Working, Ended
    <3> QED
      BY <3>1, <3>3
  <2> QED
    BY <1>1, <2>1, <2>2, <2>3
       DEF RunStep, NextFile, ExistsBag, OpenBags, Convert, ConvertFails, Discard, DiscardDir,
           Break, Unwrap, Rename, RemoveBag, RemoveDir, Crash, GoTo, Fail, Ended, Working,
           Renamed
<1> QED
  BY <1>3, <1>4, <1>5 DEF ProgressInv

(* Every reachable state has the types and the progress.                   *)
LEMMA Invariance == Spec => [](TypeOK /\ ProgressInv)
<1>1. TypeOK /\ ProgressInv /\ [Next]_vars => (TypeOK /\ ProgressInv)'
  <2> SUFFICES ASSUME TypeOK, ProgressInv, [Next]_vars
               PROVE  TypeOK' /\ ProgressInv'
    OBVIOUS
  <2>1. CASE UNCHANGED vars
    BY <2>1 DEF vars, TypeOK, ProgressInv, file
  <2> QED
    BY <2>1, StepType, StepProgress DEF Next, AllEnded
<1> QED
  BY <1>1, InitInv, PTL DEF Spec

(* Counters, positions and files of any number of runs stay in range.      *)
THEOREM ConcurrentTypeCorrect == Spec => []TypeOK
<1>1. TypeOK /\ ProgressInv => TypeOK
  OBVIOUS
<1> QED
  BY <1>1, Invariance, PTL

(* However many runs overlap, one that exits with status 0 leaves an       *)
(* output, of its own or of another run, for every file of the input.      *)
THEOREM ReportedOutputsThere ==
  Spec => [](\A r \in Run : pc[r] = "exited" /\ ret[r] = 0 => File \subseteq DOMAIN out)
<1>1. TypeOK /\ ProgressInv =>
        \A r \in Run : pc[r] = "exited" /\ ret[r] = 0 => File \subseteq DOMAIN out
  <2> SUFFICES ASSUME TypeOK, ProgressInv, NEW r \in Run, pc[r] = "exited", ret[r] = 0,
                      NEW f \in File
               PROVE  f \in DOMAIN out
    OBVIOUS
  <2>1. PICK k \in 1 .. Len(files) : f = files[k]
    BY FilesType
  <2>2. i[r] \in 1 .. Len(files) + 1 /\ i[r] > Len(files)
    BY DEF TypeOK, ProgressInv
  <2>3. k \in 1 .. i[r] - 1
    BY <2>2, FilesType
  <2> QED
    BY <2>1, <2>3 DEF ProgressInv
<1> QED
  BY <1>1, Invariance, PTL

--------------------------------------------------------------------------------
(* Two runs.                                                               *)

(* A run that has failed stays so, also when it removes the directory.     *)
LEMMA FailedStays ==
  ASSUME TypeOK, NEW r \in Run, RunStep(r), NEW q \in Run, Failed(q)
  PROVE  Failed(q)'
<1>1. CASE q # r
  BY <1>1, OthersStay DEF Failed
<1>2. CASE q = r
  <2>1. pc[r] = "discard_dir" /\ ret[r] = 1
    BY <1>2 DEF Failed, RunStep, NextFile, ExistsBag, OpenBags, Convert, Discard, DiscardDir,
                Unwrap, Rename, RemoveBag, RemoveDir, Crash, Ended
  <2>2. DOMAIN pc = Run
    BY DEF TypeOK
  <2>3. pc'[r] \in Ended /\ ret' = ret
    BY <2>1, <2>2 DEF RunStep, NextFile, ExistsBag, OpenBags, Convert, Discard, DiscardDir,
                      Break, Unwrap, Rename, RemoveBag, RemoveDir, Crash, GoTo, Ended
  <2> QED
    BY <1>2, <2>1, <2>3 DEF Failed
<1> QED
  BY <1>1, <1>2

(* What remove_all does to the directories: that of the run, if it is      *)
(* there, is emptied or goes.                                              *)
LEMMA Removal ==
  ASSUME TypeOK, NEW r \in Run, Contents(r) \/ Directory(r) \/ NothingThere(r)
  PROVE  /\ DOMAIN bag_tmp' \subseteq DOMAIN bag_tmp
         /\ \A f \in DOMAIN bag_tmp : f # file(r) =>
               f \in DOMAIN bag_tmp' /\ bag_tmp'[f] = bag_tmp[f]
         /\ \A f \in DOMAIN bag_tmp' :
               /\ bag_tmp'[f].creator = bag_tmp[f].creator
               /\ bag_tmp'[f].data => bag_tmp[f].data /\ bag_tmp'[f] = bag_tmp[f]
         /\ Contents(r) => /\ DOMAIN bag_tmp' = DOMAIN bag_tmp
                           /\ bag_tmp'[file(r)].data = FALSE
<1>1. CASE Contents(r)
  <2>1. /\ DOMAIN bag_tmp' = DOMAIN bag_tmp
        /\ \A f \in DOMAIN bag_tmp : f # file(r) => bag_tmp'[f] = bag_tmp[f]
        /\ bag_tmp'[file(r)] = [bag_tmp[file(r)] EXCEPT !.data = FALSE]
        /\ file(r) \in DOMAIN bag_tmp
        /\ bag_tmp[file(r)] \in [creator : Run, data : BOOLEAN]
    BY <1>1 DEF Contents, TypeOK
  <2>2. bag_tmp'[file(r)].creator = bag_tmp[file(r)].creator
    BY <2>1
  <2>3. bag_tmp'[file(r)].data = FALSE
    BY <2>1
  <2> QED
    BY <2>1, <2>2, <2>3
<1>2. CASE Directory(r) /\ ~Contents(r)
  <2>1. /\ DOMAIN bag_tmp' = DOMAIN bag_tmp \ {file(r)}
        /\ \A f \in DOMAIN bag_tmp \ {file(r)} : bag_tmp'[f] = bag_tmp[f]
    BY <1>2 DEF Directory, Drop
  <2> QED
    BY <1>2, <2>1
<1>3. CASE NothingThere(r) /\ ~Contents(r)
  BY <1>3 DEF NothingThere
<1> QED
  BY <1>1, <1>2, <1>3

(* A run at work on a path is disturbed there by nobody but a run that has *)
(* failed, which removes the bag as its last deed.                         *)
LEMMA StepOwned ==
  ASSUME AtMostTwo, TypeOK, ProgressInv, BagsOwned, NEW r \in Run, RunStep(r)
  PROVE  BagsOwned'
<1> DEFINE Alone(q) == \A p \in Run \ {q} : Failed(p)
           Owned(q) ==
             pc[q] \in Working =>
               /\ file(q) \in DOMAIN bag_tmp =>
                     /\ bag_tmp[file(q)].creator = q
                     /\ bag_tmp[file(q)].data => pc[q] \notin Renamed
                     /\ bag_tmp[file(q)].data \/ pc[q] \in Renamed \/ Alone(q)
               /\ file(q) \notin DOMAIN bag_tmp => Alone(q)
               /\ pc[q] # "convert" => <<q, file(q)>> \in written
<1>1. \A q \in Run : Owned(q)
  BY DEF BagsOwned
<1>2. /\ DOMAIN pc = Run /\ DOMAIN i = Run
      /\ \A f \in DOMAIN bag_tmp : bag_tmp[f] \in [creator : Run, data : BOOLEAN]
      /\ written \subseteq written'
  BY OutsGrow DEF TypeOK
<1>3. \A q \in Run \ {r} : pc'[q] = pc[q] /\ file(q)' = file(q)
  BY OthersStay
<1>4. \A q \in Run : Alone(q) => Alone(q)'
  BY FailedStays
<1> SUFFICES \A q \in Run : Owned(q)'
  BY DEF BagsOwned
<1> HIDE DEF Alone
(* Another run has not failed while this one is at work.                   *)
<1>5. ASSUME pc[r] \notin Ended \cup {"discard_dir"}, NEW q \in Run \ {r}, pc[q] \in Working
      PROVE  /\ file(q) \in DOMAIN bag_tmp
             /\ bag_tmp[file(q)].creator = q
             /\ file(q) = file(r) => pc[r] \notin Working
  <2>1. ~Failed(r)
    BY <1>5 DEF Failed
  <2>2. ~Alone(q)
    BY <2>1 DEF Alone
  <2>3. file(q) \in DOMAIN bag_tmp /\ bag_tmp[file(q)].creator = q
    BY <1>1, <1>5, <2>2
  <2>4. file(q) = file(r) /\ pc[r] \in Working => bag_tmp[file(r)].creator = r
    BY <1>1, <2>3
  <2> QED
    BY <2>3, <2>4
<1>6. ASSUME NEW q \in Run \ {r},
             \/ UNCHANGED bag_tmp
             \/ /\ pc[q] \in Working => file(q) \in DOMAIN bag_tmp
                /\ pc[q] \in Working => file(q) \in DOMAIN bag_tmp'
                /\ pc[q] \in Working => bag_tmp'[file(q)] = bag_tmp[file(q)]
      PROVE  Owned(q)'
  BY <1>1, <1>2, <1>3, <1>4, <1>6
<1>7. CASE UNCHANGED bag_tmp /\ pc'[r] \notin Working
  BY <1>6, <1>7
<1>8. ASSUME UNCHANGED <<bag_tmp, i>>, pc[r] \in {"convert", "unwrap"},
             pc'[r] \in {"unwrap", "rename"}, <<r, file(r)>> \in written'
      PROVE  \A q \in Run : Owned(q)'
  <2>1. Owned(r)'
    BY <1>1, <1>4, <1>8 DEF Working, Renamed, file
  <2> QED
    BY <1>6, <1>8, <2>1
<1>9. CASE OpenBags(r) /\ pc'[r] = "convert" /\ CreateBag(r)
  <2>1. /\ file(r) \notin DOMAIN bag_tmp /\ i' = i /\ pc[r] = "open"
        /\ bag_tmp' = Put(bag_tmp, file(r), [creator |-> r, data |-> TRUE])
    BY <1>9 DEF OpenBags, CreateBag
  <2>2. /\ DOMAIN bag_tmp' = DOMAIN bag_tmp \cup {file(r)}
        /\ bag_tmp'[file(r)] = [creator |-> r, data |-> TRUE]
        /\ \A f \in DOMAIN bag_tmp : bag_tmp'[f] = bag_tmp[f]
    BY <2>1 DEF Put
  <2>3. Owned(r)'
    BY <1>9, <2>1, <2>2 DEF file, Renamed
  <2>4. \A q \in Run \ {r} : Owned(q)'
    BY <1>5, <1>6, <2>1, <2>2 DEF Ended
  <2> QED
    BY <2>3, <2>4
<1>10. CASE Discard(r) \/ DiscardDir(r)
  <2>1. /\ Contents(r) \/ Directory(r) \/ NothingThere(r)
        /\ pc'[r] \in {"exited", "discard_dir"} /\ ret' = ret
        /\ pc[r] \in {"discard", "discard_dir"} /\ written' = written
    BY <1>2, <1>10 DEF Discard, DiscardDir, Break, GoTo
  <2>2. Failed(r)'
    BY <2>1 DEF Failed, ProgressInv, Ended
  <2>3. ASSUME NEW q \in Run \ {r}
        PROVE  Owned(q)'
    <3>1. Alone(q)'
      BY <2>2 DEF AtMostTwo, Alone
    <3>2. /\ DOMAIN bag_tmp' \subseteq DOMAIN bag_tmp
          /\ \A f \in DOMAIN bag_tmp' :
                /\ bag_tmp'[f].creator = bag_tmp[f].creator
                /\ bag_tmp'[f].data => bag_tmp[f].data
      BY <2>1, Removal
    <3> QED
      BY <1>1, <1>3, <2>1, <3>1, <3>2
  <2> QED
    BY <2>1, <2>3 DEF Working
<1>11. CASE RemoveBag(r) \/ RemoveDir(r)
  <2>1. /\ Contents(r) \/ Directory(r) \/ NothingThere(r)
        /\ pc[r] \in Renamed /\ pc[r] \in Working /\ pc[r] \notin Ended \cup {"discard_dir"}
        /\ pc[r] # "convert"
        /\ \/ pc'[r] = "next_file"
           \/ pc'[r] = "remove_dir" /\ i' = i /\ Contents(r)
    BY <1>2, <1>11 DEF RemoveBag, RemoveDir, GoTo, Working, Renamed, Ended
  <2>2. \A q \in Run \ {r} : Owned(q)'
    <3> SUFFICES ASSUME NEW q \in Run \ {r}, pc[q] \in Working
                 PROVE  /\ file(q) \in DOMAIN bag_tmp
                        /\ file(q) \in DOMAIN bag_tmp'
                        /\ bag_tmp'[file(q)] = bag_tmp[file(q)]
      BY <1>6
    <3>1. file(q) \in DOMAIN bag_tmp /\ file(q) # file(r)
      BY <1>5, <2>1
    <3> QED
      BY <2>1, <3>1, Removal
  <2>3. CASE pc'[r] = "next_file"
    BY <2>2, <2>3 DEF Working
  <2>4. CASE pc'[r] = "remove_dir" /\ i' = i /\ Contents(r)
    <3>1. /\ file(r)' = file(r) /\ file(r) \in DOMAIN bag_tmp
          /\ DOMAIN bag_tmp' = DOMAIN bag_tmp
          /\ bag_tmp'[file(r)].creator = bag_tmp[file(r)].creator
          /\ bag_tmp'[file(r)].data = FALSE
      BY <2>4, Removal DEF Contents, file
    <3>2. pc'[r] \in Renamed
      BY <2>4 DEF Renamed
    <3>3. Owned(r)'
      BY <1>1, <1>2, <2>1, <3>1, <3>2
    <3> QED
      BY <2>2, <3>3
  <2> QED
    BY <2>1, <2>3, <2>4
<1>12. CASE Rename(r) /\ pc'[r] = "remove_bag"
  <2>1. /\ file(r) \in DOMAIN bag_tmp /\ pc[r] = "rename"
        /\ bag_tmp' = [bag_tmp EXCEPT ![file(r)].data = FALSE]
        /\ i' = i /\ written' = written
    BY <1>2, <1>12 DEF Rename, GoTo
  <2>2. /\ DOMAIN bag_tmp' = DOMAIN bag_tmp
        /\ \A f \in DOMAIN bag_tmp \ {file(r)} : bag_tmp'[f] = bag_tmp[f]
        /\ bag_tmp'[file(r)].creator = bag_tmp[file(r)].creator
        /\ bag_tmp'[file(r)].data = FALSE
    BY <1>2, <2>1
  <2>3. pc[r] \in Working /\ pc[r] \notin Ended \cup {"discard_dir"} /\ pc'[r] \in Renamed
    BY <1>12, <2>1 DEF Working, Renamed, Ended
  <2>4. Owned(r)'
    BY <1>1, <2>1, <2>2, <2>3 DEF file
  <2>5. \A q \in Run \ {r} : Owned(q)'
    BY <1>5, <1>6, <2>2, <2>3
  <2> QED
    BY <2>4, <2>5
<1>13. CASE NextFile(r) \/ ExistsBag(r) \/ Crash(r)
  <2>1. UNCHANGED bag_tmp /\ pc'[r] \notin Working
    BY <1>2, <1>13 DEF NextFile, ExistsBag, Crash, GoTo, Fail, Working
  <2> QED
    BY <1>7, <2>1
<1>14. CASE OpenBags(r)
  <2>1. \/ CreateBag(r) /\ pc'[r] = "convert"
        \/ UNCHANGED bag_tmp /\ pc'[r] = "discard"
    BY <1>2, <1>14 DEF OpenBags, GoTo, Fail
  <2> QED
    BY <1>7, <1>9, <1>14, <2>1 DEF Working
<1>15. CASE Convert(r)
  <2>1. /\ UNCHANGED <<bag_tmp, i>> /\ pc[r] = "convert"
        /\ \/ pc'[r] = "unwrap" /\ <<r, file(r)>> \in written'
           \/ pc'[r] = "discard"
    BY <1>2, <1>15 DEF Convert, ConvertFails, GoTo, Fail
  <2> QED
    BY <1>7, <1>8, <2>1 DEF Working
<1>16. CASE Unwrap(r)
  <2>1. /\ UNCHANGED <<bag_tmp, i, written>> /\ pc[r] = "unwrap"
        /\ pc'[r] \in {"crashed", "rename", "exited"}
    BY <1>2, <1>16 DEF Unwrap, GoTo, Fail
  <2>2. <<r, file(r)>> \in written'
    BY <1>1, <2>1 DEF Working
  <2> QED
    BY <1>7, <1>8, <2>1, <2>2 DEF Working
<1>17. CASE Rename(r)
  <2>1. \/ pc'[r] = "remove_bag"
        \/ pc'[r] = "crashed" /\ UNCHANGED bag_tmp
    BY <1>2, <1>17 DEF Rename, GoTo
  <2> QED
    BY <1>7, <1>12, <1>17, <2>1 DEF Working
<1> QED
  BY <1>10, <1>11, <1>13, <1>14, <1>15, <1>16, <1>17 DEF RunStep

(* What is moved to an output is the bag of the run that moves it, written *)
(* to its end.                                                             *)
LEMMA StepComplete ==
  ASSUME TypeOK, BagsOwned, OutAppearsComplete, NEW r \in Run, RunStep(r)
  PROVE  OutAppearsComplete'
<1>1. written \subseteq written'
  BY OutsGrow
<1>2. CASE UNCHANGED out
  BY <1>1, <1>2 DEF OutAppearsComplete
<1>3. CASE pc[r] = "rename" /\ file(r) \in DOMAIN bag_tmp
           /\ out' = Put(out, file(r), bag_tmp[file(r)].creator)
  <2>1. /\ DOMAIN out' = DOMAIN out \cup {file(r)}
        /\ out'[file(r)] = bag_tmp[file(r)].creator
        /\ \A f \in DOMAIN out : f # file(r) => out'[f] = out[f]
    BY <1>3 DEF Put
  <2>2. bag_tmp[file(r)].creator = r /\ <<r, file(r)>> \in written
    BY <1>3 DEF BagsOwned, Working
  <2> QED
    BY <1>1, <2>1, <2>2 DEF OutAppearsComplete
<1> QED
  BY <1>2, <1>3 DEF RunStep, NextFile, ExistsBag, OpenBags, Convert, Discard, DiscardDir,
                    Unwrap, Rename, RemoveBag, RemoveDir, Crash

(* A result of a run that is nowhere any more is that of the file at hand, *)
(* and the run has neither moved it nor ended well.                        *)
LEMMA LostAtHand ==
  ASSUME TypeOK, ProgressInv, OutAppearsComplete,
         NEW p \in Run, NEW f \in File, <<p, f>> \in written, f \notin DOMAIN out
  PROVE  /\ i[p] <= Len(files) /\ f = file(p)
         /\ pc[p] \in Ended \cup {"unwrap", "rename"}
         /\ pc[p] = "exited" => ret[p] = 1
<1>1. /\ i[p] <= Len(files) /\ f = file(p)
      /\ pc[p] \in Ended \cup (Working \ {"convert"})
  BY DEF ProgressInv
<1>2. pc[p] \notin Renamed
  BY <1>1 DEF ProgressInv
<1>3. i[p] \in Nat /\ Len(files) \in Nat /\ ret[p] \in {0, 1}
  BY FilesType DEF TypeOK
<1>4. pc[p] = "exited" => ret[p] = 1
  BY <1>1, <1>3 DEF ProgressInv
<1> QED
  BY <1>1, <1>2, <1>4 DEF Working, Renamed

(* A step that loses a result is that of a run that removes the bag and    *)
(* does nothing more.                                                      *)
LEMMA StepLoss ==
  ASSUME AtMostTwo, TypeOK, ProgressInv, BagsOwned, OutAppearsComplete, LossKnown,
         NEW r \in Run, RunStep(r)
  PROVE  LossKnown'
<1> SUFFICES ASSUME NEW p \in Run, NEW f \in File, <<p, f>> \in written', ~Held(f)'
             PROVE  \A q \in Run \ {p} : Failed(q)'
  BY DEF LossKnown
<1>1. /\ written \subseteq written' /\ DOMAIN out \subseteq DOMAIN out' /\ OutAppearsComplete'
      /\ DOMAIN pc = Run
  BY OutsGrow, StepComplete DEF TypeOK
<1>2. f \notin DOMAIN out' /\ f \notin DOMAIN out
  BY <1>1 DEF Held, OutAppearsComplete
<1>3. (\A q \in Run \ {p} : Failed(q)) => \A q \in Run \ {p} : Failed(q)'
  BY FailedStays
<1>4. CASE <<p, f>> \in written /\ ~Held(f)
  BY <1>3, <1>4 DEF LossKnown
<1>5. CASE <<p, f>> \notin written
  <2>1. p = r
    BY <1>5, OthersStay
  <2>2. pc[r] = "convert" /\ f = file(r) /\ bag_tmp' = bag_tmp
    BY <1>5, <2>1 DEF RunStep, NextFile, ExistsBag, OpenBags, Convert, Discard, DiscardDir,
                      Unwrap, Rename, RemoveBag, RemoveDir, Crash
  <2>3. pc[r] \in Working /\ pc[r] \notin Renamed
    BY <2>2 DEF Working, Renamed
  <2>4. f \in DOMAIN bag_tmp /\ bag_tmp[f].creator = r => ~bag_tmp[f].data
    BY <2>1, <2>2 DEF Held
  <2>5. \A q \in Run \ {p} : Failed(q)
    BY <2>1, <2>2, <2>3, <2>4 DEF BagsOwned
  <2> QED
    BY <1>3, <2>5
<1>6. CASE <<p, f>> \in written /\ Held(f)
  <2>1. f \in DOMAIN bag_tmp /\ bag_tmp[f].data /\ <<bag_tmp[f].creator, f>> \in written
    BY <1>2, <1>6 DEF Held
  <2>2. ~(f \in DOMAIN bag_tmp' /\ bag_tmp'[f] = bag_tmp[f])
    BY <1>1, <2>1 DEF Held
  <2>3. CASE Discard(r) \/ DiscardDir(r) \/ RemoveBag(r) \/ RemoveDir(r)
    <3>1. Contents(r) \/ Directory(r) \/ NothingThere(r)
      BY <2>3 DEF Discard, DiscardDir, RemoveBag, RemoveDir
    <3>2. f = file(r) /\ ~Directory(r)
      BY <2>1, <2>2, <3>1, Removal DEF Directory
    <3>3. CASE pc[r] \in Renamed
      BY <1>2, <3>2, <3>3 DEF ProgressInv
    <3>4. CASE Discard(r)
      <4>1. pc[r] = "discard" /\ pc'[r] = "discard_dir" /\ ret' = ret
        BY <1>1, <2>1, <3>2, <3>4 DEF Discard, NothingThere, GoTo
      <4>2. Failed(r)'
        BY <4>1 DEF Failed, ProgressInv
      <4>3. p # r
        BY <1>2, <1>6, <4>1, LostAtHand DEF Ended
      <4> QED
        BY <4>2, <4>3 DEF AtMostTwo
    <3> QED
      BY <2>3, <3>2, <3>3, <3>4 DEF DiscardDir, RemoveBag, RemoveDir, Renamed
  <2>4. CASE CreateBag(r)
    BY <2>1, <2>2, <2>4 DEF CreateBag, Put
  <2>5. CASE Rename(r)
    <3>1. CASE UNCHANGED bag_tmp
      BY <2>1, <2>2, <3>1
    <3>2. CASE /\ file(r) \in DOMAIN bag_tmp
               /\ out' = Put(out, file(r), bag_tmp[file(r)].creator)
               /\ bag_tmp' = [bag_tmp EXCEPT ![file(r)].data = FALSE]
      <4>1. file(r) \in DOMAIN out'
        BY <3>2 DEF Put
      <4> QED
        BY <1>2, <2>1, <2>2, <3>2, <4>1
    <3> QED
      BY <2>5, <3>1, <3>2 DEF Rename
  <2> QED
    BY <2>1, <2>2, <2>3, <2>4, <2>5
       DEF RunStep, NextFile, ExistsBag, OpenBags, Convert, Discard, DiscardDir, Unwrap,
           RemoveBag, RemoveDir, Crash
<1> QED
  BY <1>4, <1>5, <1>6

(* With two runs, nothing incomplete is ever in its place, and what is     *)
(* lost is lost to a run that has failed.                                  *)
LEMMA TwoRuns ==
  ASSUME AtMostTwo
  PROVE  Spec => [](BagsOwned /\ OutAppearsComplete /\ LossKnown)
<1>1. TypeOK /\ ProgressInv /\ BagsOwned /\ OutAppearsComplete /\ LossKnown /\ [Next]_vars =>
        (BagsOwned /\ OutAppearsComplete /\ LossKnown)'
  <2> SUFFICES ASSUME TypeOK, ProgressInv, BagsOwned, OutAppearsComplete, LossKnown,
                      [Next]_vars
               PROVE  BagsOwned' /\ OutAppearsComplete' /\ LossKnown'
    OBVIOUS
  <2>1. CASE UNCHANGED vars
    BY <2>1 DEF vars, BagsOwned, OutAppearsComplete, LossKnown, Held, Failed, file
  <2> QED
    BY <2>1, StepOwned, StepComplete, StepLoss DEF Next, AllEnded
<1> QED
  BY <1>1, InitInv, Invariance, PTL DEF Spec

(* The bag at the path one of two runs works on is its own, unless the     *)
(* other one, failed, has emptied or removed it; what a run moves is       *)
(* written (convert_one and the batch loop of mcap_converter.cpp).         *)
THEOREM BagsStayOwned ==
  ASSUME AtMostTwo
  PROVE  Spec => []BagsOwned
<1>1. BagsOwned /\ OutAppearsComplete /\ LossKnown => BagsOwned
  OBVIOUS
<1> QED
  BY <1>1, TwoRuns, PTL

(* An output appears only once all of it is written, when two runs overlap *)
(* in any way, crash or remove each other's bags (the batch loop of main   *)
(* in mcap_converter.cpp).                                                 *)
THEOREM OutputsAppearComplete ==
  ASSUME AtMostTwo
  PROVE  Spec => []OutAppearsComplete
<1>1. BagsOwned /\ OutAppearsComplete /\ LossKnown => OutAppearsComplete
  OBVIOUS
<1> QED
  BY <1>1, TwoRuns, PTL

(* Exit status 0 of one of two runs means that every output is there and   *)
(* complete.                                                               *)
THEOREM ConcurrentSuccessComplete ==
  ASSUME AtMostTwo
  PROVE  Spec => []SuccessIsComplete
<1>1. /\ OutAppearsComplete
      /\ \A r \in Run : pc[r] = "exited" /\ ret[r] = 0 => File \subseteq DOMAIN out
      => SuccessIsComplete
  BY DEF OutAppearsComplete, SuccessIsComplete
<1> QED
  BY <1>1, OutputsAppearComplete, ReportedOutputsThere, PTL

(* A result that one of two runs has converted is lost only to the other   *)
(* one's clean-up, which is the last that one does, and the run it belongs *)
(* to does not report success (the clean-up of a failed conversion and the *)
(* unwrapping in mcap_converter.cpp).                                      *)
THEOREM LossesReported ==
  ASSUME AtMostTwo
  PROVE  Spec => []LossReported
<1>1. TypeOK /\ ProgressInv /\ BagsOwned /\ OutAppearsComplete /\ LossKnown => LossReported
  <2> SUFFICES ASSUME TypeOK, ProgressInv, OutAppearsComplete, LossKnown,
                      NEW r \in Run, NEW f \in File, <<r, f>> \in written, ~Held(f)
               PROVE  /\ \A q \in Run \ {r} : Failed(q)
                      /\ pc[r] = "exited" => ret[r] = 1
    BY DEF LossReported
  <2>1. f \notin DOMAIN out
    BY DEF Held, OutAppearsComplete
  <2> QED
    BY <2>1, LostAtHand DEF LossKnown
<1> QED
  BY <1>1, Invariance, TwoRuns, PTL
================================================================================
