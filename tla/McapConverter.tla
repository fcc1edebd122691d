----------------------------- MODULE McapConverter -----------------------------
(***************************************************************************)
(* The main program of tools/mcap_converter and what it does to the file   *)
(* system: runs that follow one another, each converting either one bag    *)
(* or, in batch mode, every bag file of a directory.  A run may be killed  *)
(* between any two steps, and so may an exception that nothing catches end *)
(* it.  Between runs the user removes what the messages ask to remove.     *)
(***************************************************************************)
EXTENDS Naturals, Sequences, SequencesExt

CONSTANTS
    File,      \* relative paths of bag files
    Inputs,    \* what --input may be: [batch |-> BOOLEAN, files |-> Seq(File)]
    MaxRuns    \* bound: runs of the program

ASSUME ConverterAssumption ==
    /\ MaxRuns \in Nat
    /\ \A input \in Inputs :
          /\ input.batch \in BOOLEAN
          /\ input.files \in Seq(File)
          /\ \A j, k \in DOMAIN input.files : input.files[j] = input.files[k] => j = k
          /\ ~input.batch => Len(input.files) = 1

VARIABLES
    pc,         \* where the run is
    input,      \* what find_bag_files found, sorted; or the one bag
    i,          \* 1-based index of the file at hand
    ret,        \* exit status
    out,        \* at the output path of each file
    bag_tmp,    \* at the temporary path of each file, <out>.__bag
    tmp_prefix, \* the temporary ament prefix of this run exists
    runs        \* runs started

vars == <<pc, input, i, ret, out, bag_tmp, tmp_prefix, runs>>

(* At a path: nothing; a bag being written, or left so; a finished bag     *)
(* with one data file, or with some other number; a directory without its  *)
(* data file.                                                              *)
Content == {"absent", "partial", "complete", "odd", "empty"}
Finished == {"complete", "odd"}

Idle == {"idle", "exited", "crashed"}

Init ==
    /\ pc = "idle" /\ input \in Inputs
    /\ i = 1 /\ ret = 0 /\ runs = 0
    /\ out = [f \in File |-> "absent"]
    /\ bag_tmp = [f \in File |-> "absent"]
    /\ tmp_prefix = FALSE

file == input.files[i]

(* main gives up before it touches the file system: a missing argument, a  *)
(* configuration or DBC file that does not load, or an expression that     *)
(* does not compile, which nothing catches.                                *)
Refuse ==
    /\ pc \in Idle /\ runs < MaxRuns
    /\ runs' = runs + 1 /\ i' = 1 /\ ret' = 1 /\ tmp_prefix' = FALSE
    /\ pc' \in {"exited", "crashed"}
    /\ UNCHANGED <<input, out, bag_tmp>>

(* main, from the creation of the ament prefix to the choice of the mode.  *)
(* A directory without bag files ends the run with status 1.               *)
Start ==
    /\ pc \in Idle /\ runs < MaxRuns
    /\ runs' = runs + 1 /\ i' = 1 /\ tmp_prefix' = TRUE
    /\ \/ /\ input.files = <<>>
          /\ ret' = 1 /\ pc' = "cleanup"
       \/ /\ input.files # <<>>
          /\ ret' = 0
          /\ pc' = IF input.batch THEN "next_file" ELSE "convert_one"
    /\ UNCHANGED <<input, out, bag_tmp>>

(* Mutant: a leftover directory skips the file and the batch goes on.      *)
Stop_unreported == pc' = "cleanup" /\ UNCHANGED ret

(* ret = 1; break                                                          *)
Stop == pc' = "cleanup" /\ ret' = 1

(* Mutant: an output that is already there is not noticed.                 *)
Exists_unchecked(f) == bag_tmp[f] # "absent"

(* Either path of the file is taken.                                       *)
Exists(f) == out[f] # "absent" \/ bag_tmp[f] # "absent"

(* The head of the batch loop.                                             *)
NextFile ==
    /\ pc = "next_file"
    /\ \/ /\ i > Len(input.files)
          /\ pc' = "cleanup" /\ UNCHANGED ret
       \/ /\ i <= Len(input.files) /\ Exists(file)
          /\ Stop
       \/ /\ i <= Len(input.files) /\ ~Exists(file)
          /\ pc' = "convert_one" /\ UNCHANGED ret
    /\ UNCHANGED <<input, i, out, bag_tmp, tmp_prefix, runs>>

--------------------------------------------------------------------------------
(* convert_one writes to the temporary path in batch mode and straight to  *)
(* the output otherwise.                                                   *)
Target == IF input.batch THEN bag_tmp[file] ELSE out[file]

WriteTarget(content) ==
    IF input.batch
    THEN bag_tmp' = [bag_tmp EXCEPT ![file] = content] /\ UNCHANGED out
    ELSE out' = [out EXCEPT ![file] = content] /\ UNCHANGED bag_tmp

(* return 1: the batch removes the temporary bag, the single mode nothing. *)
ConvertFails ==
    /\ ret' = 1
    /\ pc' = IF input.batch THEN "discard" ELSE "cleanup"

OpenBags ==
    /\ pc = "convert_one"
    /\ \/ /\ Target # "absent"
          /\ ConvertFails
          /\ UNCHANGED <<out, bag_tmp>>
       \/ /\ Target = "absent"      \* the reader or the writer does not open
          /\ ConvertFails
          /\ \E content \in {"absent", "partial"} : WriteTarget(content)
       \/ /\ Target = "absent"
          /\ WriteTarget("partial")
          /\ pc' = "convert" /\ UNCHANGED ret
    /\ UNCHANGED <<input, i, tmp_prefix, runs>>

(* The conversion loop, to its end or to an exception or lack of memory.   *)
Convert ==
    /\ pc = "convert"
    /\ \/ /\ \E content \in Finished : WriteTarget(content)
          /\ pc' = IF input.batch THEN "unwrap" ELSE "cleanup"
          /\ UNCHANGED ret
       \/ /\ ConvertFails
          /\ UNCHANGED <<out, bag_tmp>>
    /\ UNCHANGED <<input, i, tmp_prefix, runs>>

Discard ==
    /\ pc = "discard"
    /\ bag_tmp' = [bag_tmp EXCEPT ![file] = "absent"]
    /\ pc' = "cleanup"
    /\ UNCHANGED <<input, i, ret, out, tmp_prefix, runs>>

--------------------------------------------------------------------------------
(* Mutant: an unexpected bag is discarded like a failed one.               *)
Unexpected_discarded == pc' = "discard" /\ ret' = 1

(* More than one data file, or none: the bag is left as it is.             *)
Unexpected == Stop

Unwrap ==
    /\ pc = "unwrap"
    /\ \/ /\ bag_tmp[file] = "odd"
          /\ Unexpected
       \/ /\ bag_tmp[file] = "complete"
          /\ pc' = "rename" /\ UNCHANGED ret
    /\ UNCHANGED <<input, i, out, bag_tmp, tmp_prefix, runs>>

(* The data file becomes the output at once; when the rename fails it is   *)
(* copied, and the output is there while it grows.                         *)
Rename ==
    /\ pc = "rename"
    /\ \/ /\ out' = [out EXCEPT ![file] = "complete"]
          /\ bag_tmp' = [bag_tmp EXCEPT ![file] = "empty"]
          /\ pc' = "remove_bag"
       \/ /\ out' = [out EXCEPT ![file] = "partial"]
          /\ pc' = "copy_file"
          /\ UNCHANGED bag_tmp
    /\ UNCHANGED <<input, i, ret, tmp_prefix, runs>>

CopyFile ==
    /\ pc = "copy_file"
    /\ out' = [out EXCEPT ![file] = "complete"]
    /\ pc' = "remove_data"
    /\ UNCHANGED <<input, i, ret, bag_tmp, tmp_prefix, runs>>

RemoveData ==
    /\ pc = "remove_data"
    /\ bag_tmp' = [bag_tmp EXCEPT ![file] = "empty"]
    /\ pc' = "remove_bag"
    /\ UNCHANGED <<input, i, ret, out, tmp_prefix, runs>>

(* Mutant: the body of the loop increments the index as well.              *)
Advance_twice == i' = i + 2

Advance == i' = i + 1

RemoveBag ==
    /\ pc = "remove_bag"
    /\ bag_tmp' = [bag_tmp EXCEPT ![file] = "absent"]
    /\ Advance
    /\ pc' = "next_file"
    /\ UNCHANGED <<input, ret, out, tmp_prefix, runs>>

Cleanup ==
    /\ pc = "cleanup"
    /\ tmp_prefix' = FALSE
    /\ pc' = "exited"
    /\ UNCHANGED <<input, i, ret, out, bag_tmp, runs>>

--------------------------------------------------------------------------------
(* Killed, or std::terminate after an exception outside every try block:   *)
(* create_topic, copy_file, remove_all.                                    *)
Crash ==
    /\ pc \notin Idle
    /\ pc' = "crashed"
    /\ UNCHANGED <<input, i, ret, out, bag_tmp, tmp_prefix, runs>>

(* The user removes an output or a leftover between two runs.              *)
UserRemoves(f) ==
    /\ pc \in Idle
    /\ \/ out[f] # "absent" /\ out' = [out EXCEPT ![f] = "absent"] /\ UNCHANGED bag_tmp
       \/ bag_tmp[f] # "absent" /\ bag_tmp' = [bag_tmp EXCEPT ![f] = "absent"] /\ UNCHANGED out
    /\ pc' = "idle"
    /\ UNCHANGED <<input, i, ret, tmp_prefix, runs>>

(* No run is left to start.                                                *)
Rest == pc \in Idle /\ UNCHANGED vars

Step ==
    \/ Refuse \/ Start \/ NextFile \/ OpenBags \/ Convert \/ Discard \/ Unwrap
    \/ Rename \/ CopyFile \/ RemoveData \/ RemoveBag \/ Cleanup
    \/ Crash

Next == Step \/ (\E f \in File : UserRemoves(f)) \/ Rest

Spec == Init /\ [][Next]_vars

--------------------------------------------------------------------------------
(* Type invariant.  The index never runs past the end of the batch.        *)
TypeOK ==
    /\ pc \in Idle \cup {"next_file", "convert_one", "convert", "discard", "unwrap", "rename",
                         "copy_file", "remove_data", "remove_bag", "cleanup"}
    /\ input \in Inputs
    /\ i \in 1 .. Len(input.files) + 1
    /\ ret \in {0, 1}
    /\ out \in [File -> Content]
    /\ bag_tmp \in [File -> Content]
    /\ tmp_prefix \in BOOLEAN
    /\ runs \in 0 .. MaxRuns

(* Exit status 0 means that every bag is converted, its output finished,   *)
(* and that nothing temporary is left, whatever earlier runs left behind   *)
(* (main of mcap_converter.cpp).                                           *)
SuccessIsComplete ==
    pc = "exited" /\ ret = 0 =>
        /\ \A f \in Range(input.files) : out[f] \in Finished /\ bag_tmp[f] = "absent"
        /\ ~tmp_prefix

(* Converted data is never destroyed by the program: once a bag has been   *)
(* converted, it stays finished at one of its two paths, across failures,  *)
(* crashes and later runs, until the user removes it.                      *)
Converted(f) == out[f] \in Finished \/ bag_tmp[f] \in Finished

ConvertedNotLost ==
    [][ Step => \A f \in File : Converted(f) => Converted(f)' ]_vars

(* A finished output is never touched again by the program.                *)
OutputKept ==
    [][ Step => \A f \in File : out[f] \in Finished => out'[f] = out[f] ]_vars

(* The inductive invariant behind the three: the files before the one at   *)
(* hand are done; what each step of the loop has left at the two paths of  *)
(* the file at hand; and what a run that is about to exit has achieved.    *)
AtFile == {"convert_one", "convert", "discard", "unwrap", "rename",
           "copy_file", "remove_data", "remove_bag"}

Done(f) == out[f] \in Finished /\ bag_tmp[f] = "absent"

FileInv ==
    /\ pc \in AtFile => i <= Len(input.files)
    /\ pc \in AtFile \ {"convert_one", "convert"} => input.batch
    /\ pc \in {"convert_one", "convert", "discard", "unwrap", "rename"} /\ input.batch =>
          out[file] = "absent"
    /\ pc = "convert_one" /\ input.batch => bag_tmp[file] = "absent"
    /\ pc = "convert" => Target = "partial"
    /\ pc = "discard" => bag_tmp[file] \in {"absent", "partial"} /\ ret = 1
    /\ pc = "unwrap" => bag_tmp[file] \in Finished
    /\ pc \in {"rename", "copy_file"} => bag_tmp[file] = "complete"
    /\ pc = "copy_file" => out[file] = "partial"
    /\ pc \in {"remove_data", "remove_bag"} => out[file] = "complete"

ConverterInv ==
    /\ FileInv
    /\ pc = "next_file" => input.batch
    /\ ~input.batch => \A f \in File : bag_tmp[f] = "absent"
    /\ pc # "idle" => \A j \in 1 .. i - 1 : Done(input.files[j])
    /\ pc \in {"cleanup", "exited"} /\ ret = 0 =>
          \A f \in Range(input.files) : Done(f)
    /\ pc = "exited" => ~tmp_prefix

(* mcap_converter.cpp:684: in a batch, an output only appears once it is   *)
(* complete.                                                               *)
OutAppearsComplete ==
    input.batch => \A f \in File : out[f] # "partial"
================================================================================
