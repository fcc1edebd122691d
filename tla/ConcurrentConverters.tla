------------------------- MODULE ConcurrentConverters --------------------------
(***************************************************************************)
(* Several runs of mcap_converter at the same time, in batch mode, on one  *)
(* input and one output directory.  They share the paths <out> and         *)
(* <out>.__bag of every file and know nothing of one another.  A rename    *)
(* within a directory fails only when its source has gone; McapConverter   *)
(* has the copy that follows a rename that fails otherwise.                *)
(***************************************************************************)
EXTENDS Naturals, Sequences, SequencesExt

CONSTANTS
    Run,       \* runs of the program
    files      \* what find_bag_files found, the same for every run

ASSUME FilesAssumption ==
    /\ files \in Seq(Range(files))
    /\ \A j, k \in DOMAIN files : files[j] = files[k] => j = k

VARIABLES
    pc,        \* where each run is
    i,         \* of each run, the index of the file at hand
    ret,       \* exit status of each run
    bag_tmp,   \* the temporary bags there are: who made it, whether the data
               \* file, which is open until its conversion ends, is in it
    out,       \* the outputs there are: the run whose data file it is
    written    \* <<r, f>>: r has written the last of f

vars == <<pc, i, ret, bag_tmp, out, written>>

File == Range(files)
Ended == {"exited", "crashed"}

Put(fn, f, v) == [g \in DOMAIN fn \cup {f} |-> IF g = f THEN v ELSE fn[g]]
Drop(fn, f) == [g \in DOMAIN fn \ {f} |-> fn[g]]

Init ==
    /\ pc = [r \in Run |-> "next_file"]
    /\ i = [r \in Run |-> 1]
    /\ ret = [r \in Run |-> 0]
    /\ bag_tmp = <<>>
    /\ out = <<>>
    /\ written = {}

file(r) == files[i[r]]
GoTo(r, label) == pc' = [pc EXCEPT ![r] = label]
Fail(r, label) == GoTo(r, label) /\ ret' = [ret EXCEPT ![r] = 1]

(* Is there an output already?                                             *)
NextFile(r) ==
    /\ pc[r] = "next_file"
    /\ \/ /\ i[r] > Len(files)
          /\ GoTo(r, "exited") /\ UNCHANGED ret
       \/ /\ i[r] <= Len(files) /\ file(r) \in DOMAIN out
          /\ Fail(r, "exited")
       \/ /\ i[r] <= Len(files) /\ file(r) \notin DOMAIN out
          /\ GoTo(r, "exists_bag") /\ UNCHANGED ret
    /\ UNCHANGED <<i, bag_tmp, out, written>>

ExistsBag(r) ==
    /\ pc[r] = "exists_bag"
    /\ \/ file(r) \in DOMAIN bag_tmp /\ Fail(r, "exited")
       \/ file(r) \notin DOMAIN bag_tmp /\ GoTo(r, "open") /\ UNCHANGED ret
    /\ UNCHANGED <<i, bag_tmp, out, written>>

(* Mutant: an existing directory is written into.                          *)
CreateBag_reusing(r) == bag_tmp' = Put(bag_tmp, file(r), [creator |-> r, data |-> TRUE])

(* The writer makes the directory; it throws when there is one.            *)
CreateBag(r) ==
    /\ file(r) \notin DOMAIN bag_tmp
    /\ bag_tmp' = Put(bag_tmp, file(r), [creator |-> r, data |-> TRUE])

(* convert_one up to the creation of the bag: an existing bag, an input    *)
(* that does not open, and a directory that cannot be created are failures *)
(* alike, and the status 1 makes main remove the bag, whose ever it is.    *)
OpenBags(r) ==
    /\ pc[r] = "open"
    /\ \/ CreateBag(r) /\ GoTo(r, "convert") /\ UNCHANGED ret
       \/ Fail(r, "discard") /\ UNCHANGED bag_tmp
    /\ UNCHANGED <<i, out, written>>

(* Mutant: the status of convert_one is not looked at.                     *)
ConvertFails_ignored(r) == GoTo(r, "unwrap") /\ UNCHANGED ret

ConvertFails(r) == Fail(r, "discard")

(* The conversion writes to an open file, wherever that has been moved to. *)
Convert(r) ==
    /\ pc[r] = "convert"
    /\ \/ /\ written' = written \cup {<<r, file(r)>>}
          /\ GoTo(r, "unwrap") /\ UNCHANGED ret
       \/ ConvertFails(r) /\ UNCHANGED written
    /\ UNCHANGED <<i, bag_tmp, out>>

(* remove_all of a directory removes what is in it, then the directory.    *)
Contents(r) ==
    /\ file(r) \in DOMAIN bag_tmp
    /\ bag_tmp' = [bag_tmp EXCEPT ![file(r)].data = FALSE]

(* It may have gone meanwhile.  If somebody has put a file in it, rmdir    *)
(* fails and the exception ends the run, which is Crash.                   *)
Directory(r) ==
    /\ file(r) \in DOMAIN bag_tmp => ~bag_tmp[file(r)].data
    /\ bag_tmp' = Drop(bag_tmp, file(r))

NothingThere(r) == file(r) \notin DOMAIN bag_tmp /\ UNCHANGED bag_tmp

(* Mutant: the batch goes on after a failed conversion.                    *)
Break_forgotten(r) ==
    i' = [i EXCEPT ![r] = @ + 1] /\ GoTo(r, "next_file") /\ UNCHANGED ret

Break(r) == GoTo(r, "exited") /\ UNCHANGED <<i, ret>>

Discard(r) ==
    /\ pc[r] = "discard"
    /\ \/ NothingThere(r) /\ Break(r)
       \/ Contents(r) /\ GoTo(r, "discard_dir") /\ UNCHANGED <<i, ret>>
    /\ UNCHANGED <<out, written>>

DiscardDir(r) ==
    /\ pc[r] = "discard_dir"
    /\ Directory(r) /\ Break(r)
    /\ UNCHANGED <<out, written>>

(* directory_iterator throws when the directory has gone; one without its  *)
(* data file is an error of its own.                                       *)
Unwrap(r) ==
    /\ pc[r] = "unwrap"
    /\ \/ /\ file(r) \notin DOMAIN bag_tmp
          /\ GoTo(r, "crashed") /\ UNCHANGED ret
       \/ /\ file(r) \in DOMAIN bag_tmp
          /\ IF bag_tmp[file(r)].data
             THEN GoTo(r, "rename") /\ UNCHANGED ret
             ELSE Fail(r, "exited")
    /\ UNCHANGED <<i, bag_tmp, out, written>>

(* The data file has the same name in every bag of a path.  Renaming       *)
(* replaces an output that is there by now; without its source the copy    *)
(* throws as well.                                                         *)
Rename(r) ==
    /\ pc[r] = "rename"
    /\ IF file(r) \in DOMAIN bag_tmp /\ bag_tmp[file(r)].data
       THEN /\ out' = Put(out, file(r), bag_tmp[file(r)].creator)
            /\ bag_tmp' = [bag_tmp EXCEPT ![file(r)].data = FALSE]
            /\ GoTo(r, "remove_bag")
       ELSE GoTo(r, "crashed") /\ UNCHANGED <<out, bag_tmp>>
    /\ UNCHANGED <<i, ret, written>>

(* Mutant: the body of the loop increments the index as well.              *)
Advance_twice(r) == i' = [i EXCEPT ![r] = @ + 2]

Advance(r) == i' = [i EXCEPT ![r] = @ + 1]

RemoveBag(r) ==
    /\ pc[r] = "remove_bag"
    /\ \/ NothingThere(r) /\ Advance(r) /\ GoTo(r, "next_file")
       \/ Contents(r) /\ GoTo(r, "remove_dir") /\ UNCHANGED i
    /\ UNCHANGED <<ret, out, written>>

RemoveDir(r) ==
    /\ pc[r] = "remove_dir"
    /\ Directory(r) /\ Advance(r) /\ GoTo(r, "next_file")
    /\ UNCHANGED <<ret, out, written>>

Crash(r) ==
    /\ pc[r] \notin Ended
    /\ GoTo(r, "crashed")
    /\ UNCHANGED <<i, ret, bag_tmp, out, written>>

RunStep(r) ==
    \/ NextFile(r) \/ ExistsBag(r) \/ OpenBags(r) \/ Convert(r)
    \/ Discard(r) \/ DiscardDir(r)
    \/ Unwrap(r) \/ Rename(r) \/ RemoveBag(r) \/ RemoveDir(r)
    \/ Crash(r)

AllEnded == (\A r \in Run : pc[r] \in Ended) /\ UNCHANGED vars

Next == (\E r \in Run : RunStep(r)) \/ AllEnded

Spec == Init /\ [][Next]_vars

--------------------------------------------------------------------------------
(* Type invariant.                                                         *)
TypeOK ==
    /\ pc \in [Run -> Ended \cup {"next_file", "exists_bag", "open", "convert", "discard",
                                  "discard_dir", "unwrap", "rename", "remove_bag",
                                  "remove_dir"}]
    /\ i \in [Run -> 1 .. Len(files) + 1]
    /\ ret \in [Run -> {0, 1}]
    /\ DOMAIN bag_tmp \subseteq File
    /\ \A f \in DOMAIN bag_tmp : bag_tmp[f] \in [creator : Run, data : BOOLEAN]
    /\ DOMAIN out \subseteq File /\ Range(out) \subseteq Run
    /\ written \subseteq Run \X File

(* An output is there only once all of it is written, although another run *)
(* may write to the bag it comes from (mcap_converter.cpp:684).            *)
OutAppearsComplete == \A f \in DOMAIN out : <<out[f], f>> \in written

(* Exit status 0 means that every output is there and complete, whatever   *)
(* the other runs removed or replaced meanwhile.                           *)
SuccessIsComplete ==
    \A r \in Run : pc[r] = "exited" /\ ret[r] = 0 =>
        \A f \in File : f \in DOMAIN out /\ <<out[f], f>> \in written

(* There is a complete result of f, as an output or still in its bag.      *)
Held(f) ==
    \/ f \in DOMAIN out /\ <<out[f], f>> \in written
    \/ /\ f \in DOMAIN bag_tmp /\ bag_tmp[f].data
       /\ <<bag_tmp[f].creator, f>> \in written

(* A run that has failed, and at most removes an empty directory still.    *)
Failed(r) == ret[r] = 1 /\ pc[r] \in Ended \cup {"discard_dir"}

(* A run that loses the race for a bag removes the winner's, even when it  *)
(* is converted already.  Such a loss is never silent and never repeated:  *)
(* the other run has failed and does nothing more, and the one whose       *)
(* result it was does not report success (mcap_converter.cpp:694-697).     *)
LossReported ==
    \A r \in Run, f \in File : <<r, f>> \in written /\ ~Held(f) =>
        /\ \A q \in Run \ {r} : Failed(q)
        /\ pc[r] = "exited" => ret[r] = 1

(* The inductive invariant.  Any number of runs: a run has had an output   *)
(* for every file it is done with, and has converted no others but the one *)
(* at hand.                                                                *)
AtFile == {"exists_bag", "open", "convert", "discard", "discard_dir", "unwrap", "rename",
           "remove_bag", "remove_dir"}
Working == {"convert", "unwrap", "rename", "remove_bag", "remove_dir"}
Renamed == {"remove_bag", "remove_dir"}

ProgressInv ==
    \A r \in Run :
        /\ pc[r] \in AtFile => i[r] <= Len(files)
        /\ pc[r] \in {"discard", "discard_dir"} => ret[r] = 1
        /\ pc[r] \in Renamed => file(r) \in DOMAIN out
        /\ \A j \in 1 .. i[r] - 1 : files[j] \in DOMAIN out
        /\ pc[r] = "exited" /\ ret[r] = 0 => i[r] > Len(files)
        /\ \A f \in File : <<r, f>> \in written =>
              \/ \E j \in 1 .. i[r] - 1 : f = files[j]
              \/ /\ i[r] <= Len(files) /\ f = file(r)
                 /\ pc[r] \in Ended \cup (Working \ {"convert"})

(* Two runs: the bag at the path a run works on is its own; the other one  *)
(* may have emptied or removed it, which was its last deed; what a run     *)
(* moves is written.                                                       *)
AtMostTwo == \A p, q, r \in Run : p = q \/ q = r \/ p = r

BagsOwned ==
    \A r \in Run : pc[r] \in Working =>
        /\ file(r) \in DOMAIN bag_tmp =>
              /\ bag_tmp[file(r)].creator = r
              /\ bag_tmp[file(r)].data => pc[r] \notin Renamed
              /\ bag_tmp[file(r)].data \/ pc[r] \in Renamed \/ \A q \in Run \ {r} : Failed(q)
        /\ file(r) \notin DOMAIN bag_tmp => \A q \in Run \ {r} : Failed(q)
        /\ pc[r] # "convert" => <<r, file(r)>> \in written
================================================================================
