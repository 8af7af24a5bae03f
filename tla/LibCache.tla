---------------------------- MODULE LibCache ----------------------------
(***************************************************************************)
(* The libraries a miner carries inside itself (gpu_backend.go, sa_lib.go):*)
(* written out on first use to a cache that every miner on the machine     *)
(* shares, and loaded from there.  Each process tries its candidates in    *)
(* order, for the GPUs of one vendor or for the suffix sort; any call      *)
(* may fail, and a process may be killed at any step.                      *)
(*                                                                         *)
(* The name of a file carries a hash of its contents, so a name stands for *)
(* one whole file, and a file is None, Part or Whole of it.                *)
(***************************************************************************)
EXTENDS Naturals, Sequences

CONSTANTS
  LibProc,      \* miners started on the machine, each after its libraries
  SaProc,       \* those of them that are after the suffix sort: loadSA
  Candidates,   \* what each would load, in order
  Embedded,     \* those of them that are built into the binary
  None, Part, Whole

Lib == UNION {{Candidates[p][i] : i \in 1 .. Len(Candidates[p])} : p \in LibProc}

ASSUME LibAssumption ==
  /\ SaProc \subseteq LibProc /\ Candidates \in [LibProc -> Seq(Lib)]
  /\ \A p \in LibProc : Len(Candidates[p]) > 0 /\ (p \in SaProc => Len(Candidates[p]) = 1)
  /\ None # Part /\ None # Whole /\ Part # Whole

VARIABLES
  libFile,      \* the shared files, by name
  libTmp,       \* each process's temporary file
  libPC,
  libAt,        \* the candidate a process is at
  libErr,       \* b.err or saErr: "absent", "unpack", "load", "symbol" or "nil",
                \* and for the suffix sort "avx2" and "probe"
  libOpened,    \* history: what a process handed to the dynamic loader
  libDied       \* history: processes that were killed

libVars == <<libFile, libTmp, libPC, libAt, libErr, libOpened, libDied>>

LibInit ==
  /\ libFile = [l \in Lib |-> None] /\ libTmp = [p \in LibProc |-> None]
  /\ libPC = [p \in LibProc |-> "embedded"] /\ libAt = [p \in LibProc |-> 1]
  /\ libErr = [p \in LibProc |-> "absent"]
  /\ libOpened = [p \in LibProc |-> <<>>] /\ libDied = {}

Candidate(p) == Candidates[p][libAt[p]]

LibGoto(p, pc) == libPC' = [libPC EXCEPT ![p] = pc]

(* Slip: the list is not ended. *)
OneFurther(p) == libAt' = [libAt EXCEPT ![p] = @ + 1] /\ LibGoto(p, "embedded")
(* continue: the next candidate, or none is left.                          *)
NextCandidate(p) ==
  IF libAt[p] < Len(Candidates[p])
  THEN libAt' = [libAt EXCEPT ![p] = @ + 1] /\ LibGoto(p, "embedded")
  ELSE LibGoto(p, "done") /\ UNCHANGED libAt

Fails(p, why) == LibGoto(p, "done") /\ libErr' = [libErr EXCEPT ![p] = why]

(* cpu.X86.HasAVX2, asked before the suffix sort is even unpacked.         *)
NoAVX2(p) ==
  /\ libPC[p] = "embedded" /\ p \in SaProc /\ Fails(p, "avx2")
  /\ UNCHANGED <<libFile, libTmp, libAt, libOpened, libDied>>

(* libFS.ReadFile: a GPU library that is not in the binary is passed over. *)
IsEmbedded(p) ==
  /\ libPC[p] = "embedded"
  /\ \/ Candidate(p) \in Embedded /\ LibGoto(p, "stat") /\ UNCHANGED <<libAt, libErr>>
     \/ Candidate(p) \notin Embedded /\ p \notin SaProc /\ NextCandidate(p) /\ UNCHANGED libErr
     \/ Candidate(p) \notin Embedded /\ p \in SaProc /\ Fails(p, "unpack") /\ UNCHANGED libAt
  /\ UNCHANGED <<libFile, libTmp, libOpened, libDied>>

-----------------------------------------------------------------------------
(* extractEmbeddedLib *)

(* os.Stat, and the size is that of the whole.                             *)
Unpacked(l)  == libFile[l] = Whole

StatTarget(p) ==
  /\ libPC[p] = "stat"
  /\ LibGoto(p, IF Unpacked(Candidate(p)) THEN "open" ELSE "create")
  /\ UNCHANGED <<libFile, libTmp, libAt, libErr, libOpened, libDied>>

(* Slip: the file is written under its own name. *)
AtTarget(p, part) == libFile' = [libFile EXCEPT ![Candidate(p)] = part] /\ UNCHANGED libTmp
(* A name of its own for each process.                                     *)
InTemp(p, part)   == libTmp' = [libTmp EXCEPT ![p] = part] /\ UNCHANGED libFile

(* MkdirAll and CreateTemp.                                                *)
CreateTemp(p) ==
  /\ libPC[p] = "create"
  /\ \/ InTemp(p, Part) /\ LibGoto(p, "write") /\ UNCHANGED libErr
     \/ Fails(p, "unpack") /\ UNCHANGED <<libFile, libTmp>>
  /\ UNCHANGED <<libAt, libOpened, libDied>>

(* Slip: it is left behind. *)
LeftThere(p) == UNCHANGED libTmp
(* os.Remove(tmpName) *)
RemoveTemp(p) == libTmp' = [libTmp EXCEPT ![p] = None]

(* Write, Close and Chmod; each failure takes the temporary file away.     *)
WriteTemp(p) ==
  /\ libPC[p] = "write"
  /\ \/ InTemp(p, Whole) /\ LibGoto(p, "rename") /\ UNCHANGED libErr
     \/ RemoveTemp(p) /\ Fails(p, "unpack") /\ UNCHANGED libFile
  /\ UNCHANGED <<libAt, libOpened, libDied>>

RenameTemp(p) ==
  /\ libPC[p] = "rename"
  /\ \/ /\ libFile' = [libFile EXCEPT ![Candidate(p)] = libTmp[p]]
        /\ libTmp' = [libTmp EXCEPT ![p] = None]
        /\ LibGoto(p, "open")
     \/ LibGoto(p, "lost") /\ UNCHANGED <<libFile, libTmp>>
  /\ UNCHANGED <<libAt, libErr, libOpened, libDied>>

(* Slip: the race is taken for won. *)
Assumed(p)   == TRUE
(* os.Stat after a rename that failed: another process won the race.       *)
WonByOther(p) == libFile[Candidate(p)] # None

LostRename(p) ==
  /\ libPC[p] = "lost" /\ RemoveTemp(p)
  /\ IF WonByOther(p) THEN LibGoto(p, "open") /\ UNCHANGED libErr ELSE Fails(p, "unpack")
  /\ UNCHANGED <<libFile, libAt, libOpened, libDied>>

-----------------------------------------------------------------------------
(* load and loadSA after the file is there *)

(* Slip: only the last error is told, and this one is not. *)
Untold(p)    == UNCHANGED libErr
LoadError(p) == libErr' = [libErr EXCEPT ![p] = "load"]

(* openNativeLibrary: the machine may not be able to load it.              *)
OpenLibrary(p) ==
  /\ libPC[p] = "open"
  /\ libOpened' = [libOpened EXCEPT ![p] = Append(@, libFile[Candidate(p)])]
  /\ \/ LibGoto(p, "bind") /\ UNCHANGED <<libAt, libErr>>
     \/ NextCandidate(p) /\ LoadError(p)
  /\ UNCHANGED <<libFile, libTmp, libDied>>

(* Every symbol, and for the suffix sort the probe.                        *)
BindSymbols(p) ==
  /\ libPC[p] = "bind"
  /\ \/ Fails(p, "symbol")
     \/ p \in SaProc /\ Fails(p, "probe")
     \/ LibGoto(p, "done") /\ libErr' = [libErr EXCEPT ![p] = "nil"]
  /\ UNCHANGED <<libFile, libTmp, libAt, libOpened, libDied>>

LibKilled(p) ==
  /\ libPC[p] \notin {"done", "killed"} /\ LibGoto(p, "killed")
  /\ libDied' = libDied \cup {p}
  /\ UNCHANGED <<libFile, libTmp, libAt, libErr, libOpened>>

LibStep(p) ==
  \/ NoAVX2(p) \/ IsEmbedded(p) \/ StatTarget(p) \/ CreateTemp(p) \/ WriteTemp(p) \/ RenameTemp(p)
  \/ LostRename(p) \/ OpenLibrary(p) \/ BindSymbols(p) \/ LibKilled(p)

LibNext == \E p \in LibProc : LibStep(p)

LibSpec == LibInit /\ [][LibNext]_libVars

-----------------------------------------------------------------------------
LibTypeOK ==
  /\ libFile \in [Lib -> {None, Part, Whole}] /\ libTmp \in [LibProc -> {None, Part, Whole}]
  /\ libPC \in [LibProc -> {"embedded", "stat", "create", "write", "rename", "lost", "open", "bind",
                            "done", "killed"}]
  /\ \A p \in LibProc : libAt[p] \in 1 .. Len(Candidates[p])
  /\ libErr \in [LibProc -> {"absent", "unpack", "load", "symbol", "nil", "avx2", "probe"}]
  /\ libDied \subseteq LibProc

(* No process ever loads a half-written library or a path where nothing    *)
(* is, however many unpack it at once and wherever one of them is killed   *)
(* or its rename refused.                                                  *)
LoadsWhole == \A p \in LibProc : \A i \in 1 .. Len(libOpened[p]) : libOpened[p][i] = Whole

(* A process that was not killed leaves no temporary file in the cache,    *)
(* whichever call failed it.                                               *)
NoLitter == \A p \in LibProc : libPC[p] = "done" => libTmp[p] = None

(* "no library in this build" is said exactly when none of the candidates  *)
(* is in it, so a rig whose runtime is missing is never told that.         *)
AbsentMeansAbsent ==
  \A p \in LibProc \ SaProc : libPC[p] = "done" =>
    (libErr[p] = "absent" <=> \A i \in 1 .. Len(Candidates[p]) : Candidates[p][i] \notin Embedded)

(* Several processes that unpack and load the libraries at once, fail or   *)
(* are killed at any call: what is loaded is whole, what is left is clean  *)
(* and what is said of it is true.                                         *)
LibrariesSound == LibTypeOK /\ LoadsWhole /\ NoLitter /\ AbsentMeansAbsent
=============================================================================
