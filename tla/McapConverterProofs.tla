-------------------------- MODULE McapConverterProofs --------------------------
(* What the converter guarantees for any inputs and any sequence of runs,   *)
(* crashes and removals.                                                    *)
EXTENDS McapConverter, TLAPS

(* What the assumption on the inputs says of the input at hand.            *)
LEMMA InputType ==
  ASSUME TypeOK
  PROVE  /\ input.batch \in BOOLEAN
         /\ input.files \in Seq(File)
         /\ Len(input.files) \in Nat
         /\ i \in Nat \ {0}
         /\ \A j \in 1 .. Len(input.files) : input.files[j] \in File
         /\ \A j, k \in 1 .. Len(input.files) : input.files[j] = input.files[k] => j = k
         /\ ~input.batch => Len(input.files) = 1
<1>1. /\ input.batch \in BOOLEAN
      /\ input.files \in Seq(File)
      /\ \A j, k \in DOMAIN input.files : input.files[j] = input.files[k] => j = k
      /\ ~input.batch => Len(input.files) = 1
  BY ConverterAssumption DEF TypeOK
<1>2. /\ Len(input.files) \in Nat /\ DOMAIN input.files = 1 .. Len(input.files)
      /\ \A j \in 1 .. Len(input.files) : input.files[j] \in File
  BY <1>1
<1>3. i \in Nat \ {0}
  BY <1>2 DEF TypeOK
<1> QED
  BY <1>1, <1>2, <1>3

(* Within the body of the loop, the file at hand is a file of the input.   *)
LEMMA FileType ==
  ASSUME TypeOK, ConverterInv, pc \in AtFile
  PROVE  file \in File /\ i \in 1 .. Len(input.files)
<1>1. i <= Len(input.files)
  BY DEF ConverterInv, FileInv
<1> QED
  BY <1>1, InputType DEF file

(* The invariant holds before the first run.                               *)
LEMMA InitInv == Init => TypeOK /\ ConverterInv
<1> SUFFICES ASSUME Init
             PROVE  TypeOK /\ ConverterInv
  OBVIOUS
<1>1. input.files \in Seq(File) /\ Len(input.files) \in Nat /\ MaxRuns \in Nat
  BY ConverterAssumption DEF Init
<1>2. TypeOK
  <2>1. i \in 1 .. Len(input.files) + 1 /\ runs \in 0 .. MaxRuns
    BY <1>1 DEF Init
  <2> QED
    BY <2>1 DEF Init, TypeOK, Idle, Content
<1>3. ConverterInv
  BY DEF Init, ConverterInv, FileInv, AtFile
<1> QED
  BY <1>2, <1>3

(* The converter is well typed, whatever the inputs.                       *)
LEMMA StepType ==
  ASSUME TypeOK, ConverterInv, [Next]_vars
  PROVE  TypeOK'
<1> USE InputType DEF TypeOK, Content, Idle, Finished
<1>0. CASE Refuse
  <2>1. 1 \in 1 .. Len(input.files) + 1 /\ runs + 1 \in 0 .. MaxRuns
    BY <1>0, ConverterAssumption DEF Refuse
  <2> QED
    BY <1>0, <2>1 DEF Refuse
<1>1. CASE Start
  BY <1>1, ConverterAssumption DEF Start
<1>2. CASE NextFile
  BY <1>2 DEF NextFile, Stop
<1>3. CASE OpenBags
  BY <1>3 DEF OpenBags, ConvertFails, WriteTarget
<1>4. CASE Convert
  BY <1>4 DEF Convert, ConvertFails, WriteTarget
<1>5. CASE Discard \/ Unwrap \/ Rename \/ CopyFile \/ RemoveData \/ Cleanup \/ Crash
  BY <1>5 DEF Discard, Unwrap, Unexpected, Stop, Rename, CopyFile, RemoveData, Cleanup, Crash
<1>6. CASE RemoveBag
  <2>1. i \in 1 .. Len(input.files) /\ Len(input.files) \in Nat
    BY <1>6, FileType, InputType DEF RemoveBag, AtFile
  <2>2. i' \in 1 .. Len(input.files) + 1
    BY <1>6, <2>1 DEF RemoveBag, Advance
  <2> QED
    BY <1>6, <2>2 DEF RemoveBag
<1>7. ASSUME NEW f \in File, UserRemoves(f)
      PROVE  TypeOK'
  BY <1>7 DEF UserRemoves
<1>8. CASE Rest \/ UNCHANGED vars
  BY <1>8 DEF Rest, vars
<1> QED
  BY <1>0, <1>1, <1>2, <1>3, <1>4, <1>5, <1>6, <1>7, <1>8 DEF Next, Step

(* Writing at the paths of the file at hand leaves the files before it     *)
(* as they are.                                                            *)
LEMMA EarlierKept ==
  ASSUME TypeOK, ConverterInv, pc \in AtFile,
         \A f \in File \ {file} : out'[f] = out[f] /\ bag_tmp'[f] = bag_tmp[f],
         UNCHANGED input
  PROVE  \A j \in 1 .. i - 1 : Done(input.files[j])'
<1> SUFFICES ASSUME NEW j \in 1 .. i - 1
             PROVE  Done(input.files[j])'
  OBVIOUS
<1>1. i \in 1 .. Len(input.files) /\ Len(input.files) \in Nat
  BY FileType, InputType
<1>2. j \in 1 .. Len(input.files) /\ j # i
  BY <1>1
<1>3. input.files[j] \in File \ {file}
  BY <1>1, <1>2, InputType DEF file
<1>4. Done(input.files[j])
  <2>1. pc # "idle"
    BY DEF AtFile
  <2> QED
    BY <2>1 DEF ConverterInv
<1> QED
  BY <1>3, <1>4 DEF Done

(* The steps at the head of a run and of the loop.                         *)
LEMMA HeadInv ==
  ASSUME TypeOK, ConverterInv, Refuse \/ Start \/ NextFile
  PROVE  ConverterInv'
<1>0. CASE Refuse
  BY <1>0 DEF Refuse, ConverterInv, FileInv, AtFile, Done
<1>1. CASE Start
  <2>1. /\ i' = 1 /\ UNCHANGED <<input, out, bag_tmp>>
        /\ \/ pc' = "cleanup" /\ ret' = 1
           \/ input.files # <<>> /\ pc' = IF input.batch THEN "next_file" ELSE "convert_one"
    BY <1>1 DEF Start
  <2>2. input.files # <<>> => 1 <= Len(input.files)
    BY InputType
  <2>3. FileInv'
    BY <2>1, <2>2 DEF FileInv, AtFile
  <2>4. \A j \in 1 .. i' - 1 : Done(input.files[j])'
    BY <2>1
  <2> QED
    BY <2>1, <2>3, <2>4 DEF ConverterInv
<1>2. CASE NextFile
  <2>1. pc = "next_file" /\ input.batch /\ UNCHANGED <<input, i, out, bag_tmp>>
    BY <1>2 DEF NextFile, ConverterInv
  <2>2. \A j \in 1 .. i - 1 : Done(input.files[j])
    BY <2>1 DEF ConverterInv
  <2>3. CASE i > Len(input.files) /\ pc' = "cleanup" /\ UNCHANGED ret
    <3>1. \A f \in Range(input.files) : Done(f)
      <4> SUFFICES ASSUME NEW j \in DOMAIN input.files
                   PROVE  Done(input.files[j])
        BY DEF Range
      <4>1. j \in 1 .. i - 1
        BY <2>3, InputType
      <4> QED
        BY <2>2, <4>1
    <3> QED
      BY <2>1, <2>2, <2>3, <3>1 DEF ConverterInv, FileInv, AtFile, Done
  <2>4. CASE Stop
    BY <2>1, <2>2, <2>4 DEF Stop, ConverterInv, FileInv, AtFile, Done
  <2>5. CASE i <= Len(input.files) /\ ~Exists(file) /\ pc' = "convert_one"
    BY <2>1, <2>2, <2>5 DEF Exists, ConverterInv, FileInv, AtFile, Done, file
  <2> QED
    BY <1>2, <2>3, <2>4, <2>5 DEF NextFile
<1> QED
  BY <1>0, <1>1, <1>2

(* The steps of convert_one.                                               *)
LEMMA ConvertInv ==
  ASSUME TypeOK, ConverterInv, OpenBags \/ Convert
  PROVE  ConverterInv'
<1>1. /\ pc \in {"convert_one", "convert"} /\ pc \in AtFile
      /\ UNCHANGED <<input, i>> /\ file' = file
  BY DEF OpenBags, Convert, AtFile, file
<1>2. file \in File /\ i \in 1 .. Len(input.files) /\ i <= Len(input.files)
  BY <1>1, FileType, InputType
<1>3. /\ \A f \in File \ {file} : out'[f] = out[f] /\ bag_tmp'[f] = bag_tmp[f]
      /\ input.batch => UNCHANGED out
      /\ ~input.batch => UNCHANGED bag_tmp
  BY DEF OpenBags, Convert, WriteTarget, TypeOK
<1>4. \A j \in 1 .. i' - 1 : Done(input.files[j])'
  BY <1>1, <1>3, EarlierKept
<1>5. /\ input.batch => out[file] = "absent"
      /\ ~input.batch => \A f \in File : bag_tmp[f] = "absent"
      /\ pc = "convert_one" /\ input.batch => bag_tmp[file] = "absent"
      /\ pc = "convert" => Target = "partial"
  BY <1>1 DEF ConverterInv, FileInv
<1>6. ASSUME NEW content, WriteTarget(content)
      PROVE  Target' = content
  BY <1>1, <1>2, <1>6 DEF WriteTarget, Target, TypeOK
<1>7. CASE /\ ConvertFails
           /\ \/ UNCHANGED <<out, bag_tmp>>
              \/ \E content \in {"absent", "partial"} : WriteTarget(content)
  <2>1. input.batch => Target' \in {"absent", "partial"}
    <3>1. CASE UNCHANGED <<out, bag_tmp>>
      BY <1>1, <1>5, <3>1 DEF Target
    <3>2. CASE \E content \in {"absent", "partial"} : WriteTarget(content)
      BY <1>6, <3>2
    <3> QED
      BY <1>7, <3>1, <3>2
  <2>2. CASE input.batch
    <3>1. /\ pc' = "discard" /\ ret' = 1 /\ out'[file] = "absent"
          /\ bag_tmp'[file] \in {"absent", "partial"}
      BY <1>1, <1>3, <1>5, <1>7, <2>1, <2>2 DEF ConvertFails, Target
    <3> QED
      BY <1>1, <1>2, <1>4, <2>2, <3>1 DEF ConverterInv, FileInv, AtFile
  <2>3. CASE ~input.batch
    <3>1. pc' = "cleanup" /\ ret' = 1
      BY <1>7, <2>3 DEF ConvertFails
    <3> QED
      BY <1>1, <1>3, <1>4, <1>5, <2>3, <3>1 DEF ConverterInv, FileInv, AtFile
  <2> QED
    BY <2>2, <2>3
<1>8. CASE pc' = "convert" /\ WriteTarget("partial")
  BY <1>1, <1>2, <1>3, <1>4, <1>5, <1>6, <1>8 DEF ConverterInv, FileInv, AtFile, Target
<1>9. CASE /\ pc' = IF input.batch THEN "unwrap" ELSE "cleanup"
           /\ \E content \in Finished : WriteTarget(content)
  <2>1. Target' \in Finished
    BY <1>6, <1>9
  <2>2. CASE input.batch
    <3>1. pc' = "unwrap" /\ out'[file] = "absent" /\ bag_tmp'[file] \in Finished
      BY <1>1, <1>3, <1>5, <1>9, <2>1, <2>2 DEF Target
    <3> QED
      BY <1>1, <1>2, <1>4, <2>2, <3>1 DEF ConverterInv, FileInv, AtFile
  <2>3. CASE ~input.batch
    <3>1. Done(file)'
      BY <1>1, <1>2, <1>3, <1>5, <2>1, <2>3 DEF Done, Target
    <3>2. Range(input.files) = {file}
      <4>1. Len(input.files) = 1 /\ DOMAIN input.files = 1 .. 1 /\ i = 1
        BY <1>2, <2>3, InputType
      <4> QED
        BY <4>1 DEF Range, file
    <3>3. \A f \in Range(input.files) : Done(f)'
      BY <1>1, <3>1, <3>2
    <3> QED
      BY <1>1, <1>2, <1>3, <1>4, <1>5, <1>9, <2>3, <3>3 DEF ConverterInv, FileInv, AtFile
  <2> QED
    BY <2>2, <2>3, InputType
<1> QED
  BY <1>7, <1>8, <1>9 DEF OpenBags, Convert

(* The steps that move a converted bag to its output, or give it up.       *)
LEMMA MoveInv ==
  ASSUME TypeOK, ConverterInv,
         Discard \/ Unwrap \/ Rename \/ CopyFile \/ RemoveData \/ RemoveBag
  PROVE  ConverterInv'
<1>1. /\ pc \in AtFile \ {"convert_one", "convert"} /\ input.batch
      /\ UNCHANGED input
  BY DEF Discard, Unwrap, Rename, CopyFile, RemoveData, RemoveBag, AtFile, ConverterInv, FileInv
<1>2. file \in File /\ i \in 1 .. Len(input.files) /\ i <= Len(input.files)
  BY <1>1, FileType, InputType
<1>3. \A f \in File \ {file} : out'[f] = out[f] /\ bag_tmp'[f] = bag_tmp[f]
  BY DEF Discard, Unwrap, Rename, CopyFile, RemoveData, RemoveBag, TypeOK
<1>4. \A j \in 1 .. i - 1 : Done(input.files[j])'
  BY <1>1, <1>3, EarlierKept
<1>5. CASE Discard \/ Unwrap \/ Rename \/ CopyFile \/ RemoveData
  <2>1. UNCHANGED i /\ file' = file
    BY <1>1, <1>5 DEF Discard, Unwrap, Rename, CopyFile, RemoveData, file
  <2>2. FileInv
    BY DEF ConverterInv
  <2>3. CASE Discard
    BY <1>1, <1>2, <1>4, <2>1, <2>2, <2>3 DEF Discard, TypeOK, ConverterInv, FileInv, AtFile
  <2>4. CASE Unwrap
    BY <1>1, <1>2, <1>4, <2>1, <2>2, <2>4 DEF Unwrap, Unexpected, Stop, ConverterInv, FileInv, AtFile
  <2>5. CASE Rename
    BY <1>1, <1>2, <1>4, <2>1, <2>2, <2>5 DEF Rename, TypeOK, ConverterInv, FileInv, AtFile
  <2>6. CASE CopyFile
    BY <1>1, <1>2, <1>4, <2>1, <2>2, <2>6 DEF CopyFile, TypeOK, ConverterInv, FileInv, AtFile
  <2>7. CASE RemoveData
    BY <1>1, <1>2, <1>4, <2>1, <2>2, <2>7 DEF RemoveData, TypeOK, ConverterInv, FileInv, AtFile
  <2> QED
    BY <1>5, <2>3, <2>4, <2>5, <2>6, <2>7
<1>6. CASE RemoveBag
  <2>1. /\ pc = "remove_bag" /\ pc' = "next_file" /\ i' = i + 1 /\ UNCHANGED out
        /\ bag_tmp' = [bag_tmp EXCEPT ![file] = "absent"]
    BY <1>6 DEF RemoveBag, Advance
  <2>2. out[file] = "complete"
    BY <2>1 DEF ConverterInv, FileInv
  <2>3. out'[file] \in Finished /\ bag_tmp'[file] = "absent"
    BY <1>2, <2>1, <2>2 DEF Finished, TypeOK
  <2>4. ASSUME NEW j \in 1 .. i' - 1
        PROVE  Done(input.files[j])'
    <3>1. CASE j = i
      BY <1>1, <2>3, <3>1 DEF Done, file
    <3>2. CASE j # i
      <4>1. j \in 1 .. i - 1
        BY <2>1, <3>2, InputType
      <4> QED
        BY <1>4, <4>1
    <3> QED
      BY <3>1, <3>2
  <2> QED
    BY <1>1, <2>1, <2>4 DEF ConverterInv, FileInv, AtFile
<1> QED
  BY <1>5, <1>6

(* Every step, the user's and a crash included, keeps the invariant.       *)
LEMMA StepInv ==
  ASSUME TypeOK, ConverterInv, [Next]_vars
  PROVE  ConverterInv'
<1>1. CASE Cleanup
  BY <1>1 DEF Cleanup, ConverterInv, FileInv, AtFile, Done
<1>2. CASE Crash
  BY <1>2 DEF Crash, ConverterInv, FileInv, AtFile, Done, Idle
<1>3. ASSUME NEW f \in File, UserRemoves(f)
      PROVE  ConverterInv'
  BY <1>3 DEF UserRemoves, ConverterInv, FileInv, AtFile, TypeOK
<1>4. CASE Rest \/ UNCHANGED vars
  BY <1>4 DEF Rest, vars, ConverterInv, FileInv, AtFile, Done, Target, file
<1> QED
  BY <1>1, <1>2, <1>3, <1>4, HeadInv, ConvertInv, MoveInv DEF Next, Step

(* The invariant of the converter holds in every reachable state.          *)
THEOREM ConverterInvariant == Spec => [](TypeOK /\ ConverterInv)
<1>1. TypeOK /\ ConverterInv /\ [Next]_vars => (TypeOK /\ ConverterInv)'
  BY StepType, StepInv
<1> QED
  BY <1>1, InitInv, PTL DEF Spec

(* The converter is well typed in every reachable state, for any files and *)
(* inputs (main).                                                          *)
THEOREM ConverterTypeCorrect == Spec => []TypeOK
BY ConverterInvariant, PTL

(* A run that reports success has converted every bag of its input and     *)
(* leaves nothing temporary.                                               *)
THEOREM SuccessComplete == Spec => []SuccessIsComplete
<1>1. ConverterInv => SuccessIsComplete
  BY DEF ConverterInv, SuccessIsComplete, Done
<1> QED
  BY <1>1, ConverterInvariant, PTL

(* The program never destroys what it has converted.                       *)
THEOREM NothingConvertedIsLost == Spec => ConvertedNotLost
<1> DEFINE Kept == Step => \A f \in File : Converted(f) => Converted(f)'
<1>1. TypeOK /\ ConverterInv /\ [Next]_vars => [Kept]_vars
  <2> SUFFICES ASSUME TypeOK, ConverterInv, Step, NEW f \in File, Converted(f)
               PROVE  Converted(f)'
    OBVIOUS
  <2> USE DEF Converted, Finished
  <2>1. CASE UNCHANGED <<out, bag_tmp>>
    BY <2>1
  <2>2. CASE pc \in AtFile
    <3>1. FileInv /\ file \in File
      BY <2>2, FileType DEF ConverterInv
    <3>2. CASE f # file
      BY <3>1, <3>2 DEF Step, Refuse, Start, NextFile, OpenBags, Convert, WriteTarget, Discard, Unwrap, Rename,
                        CopyFile, RemoveData, RemoveBag, Cleanup, Crash, TypeOK
    <3>3. CASE f = file /\ (OpenBags \/ Convert)
      BY <2>2, <3>1, <3>3 DEF OpenBags, Convert, WriteTarget, Target, FileInv, TypeOK
    <3>4. CASE f = file /\ (Discard \/ Rename \/ CopyFile \/ RemoveData \/ RemoveBag)
      BY <2>2, <3>1, <3>4 DEF Discard, Rename, CopyFile, RemoveData, RemoveBag, FileInv, TypeOK, AtFile
    <3> QED
      BY <2>1, <3>2, <3>3, <3>4 DEF Step, Refuse, Start, NextFile, Unwrap, Cleanup, Crash
  <2> QED
    BY <2>1, <2>2 DEF Step, Refuse, Start, NextFile, OpenBags, Convert, Discard, Unwrap, Rename,
                      CopyFile, RemoveData, RemoveBag, Cleanup, Crash, AtFile
<1> QED
  BY <1>1, ConverterInvariant, PTL DEF Spec, ConvertedNotLost

(* The program never touches a finished output.                            *)
THEOREM OutputsKept == Spec => OutputKept
<1> DEFINE Kept == Step => \A f \in File : out[f] \in Finished => out'[f] = out[f]
<1>1. TypeOK /\ ConverterInv /\ [Next]_vars => [Kept]_vars
  <2> SUFFICES ASSUME TypeOK, ConverterInv, Step, NEW f \in File, out[f] \in Finished
               PROVE  out'[f] = out[f]
    OBVIOUS
  <2>1. CASE UNCHANGED out
    BY <2>1
  <2>2. CASE OpenBags \/ Convert
    <3>1. pc \in AtFile
      BY <2>2 DEF OpenBags, Convert, AtFile
    <3>2. FileInv /\ file \in File
      BY <3>1, FileType DEF ConverterInv
    <3> QED
      BY <2>2, <3>2 DEF OpenBags, Convert, WriteTarget, Target, FileInv, TypeOK, Finished
  <2>3. CASE Rename \/ CopyFile
    <3>1. pc \in AtFile
      BY <2>3 DEF Rename, CopyFile, AtFile
    <3>2. FileInv /\ file \in File /\ input.batch
      BY <3>1, <2>3, FileType DEF ConverterInv, FileInv, Rename, CopyFile
    <3> QED
      BY <2>3, <3>2 DEF Rename, CopyFile, FileInv, TypeOK, Finished
  <2> QED
    BY <2>1, <2>2, <2>3 DEF Step, Refuse, Start, NextFile, Discard, Unwrap, RemoveData, RemoveBag, Cleanup, Crash
<1> QED
  BY <1>1, ConverterInvariant, PTL DEF Spec, OutputKept
================================================================================
