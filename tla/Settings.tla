---------------------------- MODULE Settings ----------------------------
(***************************************************************************)
(* How a run gets its settings, over any number of runs of the miner:      *)
(* main.go takes the config file and the flags of one start, setup.go asks *)
(* for what is missing and saves it, and the commands change and save the  *)
(* settings of the run that has begun (commands.go).                       *)
(*                                                                         *)
(* An address is the network it is valid for, a node is there or not, and  *)
(* of the cards only the number counts.                                    *)
(***************************************************************************)
EXTENDS Integers

CONSTANTS
  maxThreads,
  DefaultThreads,   \* one less than the logical CPUs, and at least one
  GPUCount          \* what the drivers report

ASSUME SettingsAssumption ==
  maxThreads \in Nat /\ DefaultThreads \in 1 .. maxThreads /\ GPUCount \in Nat

Unset == -1         \* a flag that was not given; threads that were not chosen
NoAddress == "none"

Config == [Wallet : {NoAddress, "main", "test"}, Node : BOOLEAN, Threads : Unset .. maxThreads,
           GPUs : 0 .. GPUCount, Testnet : BOOLEAN]
Flags  == [setup : BOOLEAN, wallet : {NoAddress, "main", "test"},
           threads : Unset .. maxThreads, gpu : Unset .. GPUCount, testnet : BOOLEAN]
NoConfig == [Wallet |-> NoAddress, Node |-> FALSE, Threads |-> Unset, GPUs |-> 0, Testnet |-> FALSE]
Plain  == [setup |-> FALSE, wallet |-> NoAddress, threads |-> Unset,
           gpu |-> Unset, testnet |-> FALSE]

VARIABLES
  cfgFile,      \* the config file; NoConfig when there is none
  setPC,        \* "off", "asking", "flags", "begun", "running" or "refused"
  setFlags,     \* the flags of this start
  cfg,          \* *cfg of main and of the commands
  testnet,      \* the network the program was set up for
  engThreads,   \* e.Threads()
  asked         \* history: this start went through the setup

setVars == <<cfgFile, setPC, setFlags, cfg, testnet, engThreads, asked>>

SetInit ==
  /\ cfgFile = NoConfig /\ setPC = "off" /\ setFlags = Plain /\ cfg = NoConfig
  /\ testnet = FALSE /\ engThreads = 0 /\ asked = FALSE

Net(c) == IF c THEN "test" ELSE "main"

-----------------------------------------------------------------------------
(* config.go: Complete.                                                    *)
Complete(c) ==
  /\ c # NoConfig /\ c.Wallet # NoAddress /\ c.Node
  /\ c.Threads >= 0 /\ (c.Threads > 0 \/ c.GPUs > 0)

NeedSetup(c, flags) == flags.setup \/ (~Complete(c) /\ flags.wallet = NoAddress)

(* main, as far as the setup; without a file cfg is built from defaults.   *)
Start(flags) ==
  /\ setPC \in {"off", "refused"}
  /\ setFlags' = flags
  /\ testnet' = (flags.testnet \/ cfgFile.Testnet)
  /\ cfg' = IF cfgFile # NoConfig THEN cfgFile
            ELSE [NoConfig EXCEPT !.Threads = DefaultThreads, !.Testnet = testnet']
  /\ setPC' = IF NeedSetup(cfgFile, flags) THEN "asking" ELSE "flags"
  /\ asked' = FALSE /\ engThreads' = 0
  /\ UNCHANGED cfgFile

-----------------------------------------------------------------------------
(* setup.go: RunSetup, asked again until every answer will do.             *)

(* "no CPU threads and no GPU found -- nothing would mine"                 *)
Mineable(n)   == n # 0 \/ GPUCount # 0

(* Slip: no is no. *)
AnyCards(n, gpus)  == gpus \in {0, GPUCount}
(* yes takes every card; no is refused when the CPU is off already.        *)
GPUAnswer(n, gpus) == gpus \in {0, GPUCount} /\ (n = 0 /\ GPUCount > 0 => gpus > 0)

Answers(c) ==
  /\ c \in Config /\ c.Wallet = Net(c.Testnet) /\ c.Node
  /\ c.Threads \in 0 .. maxThreads /\ Mineable(c.Threads) /\ GPUAnswer(c.Threads, c.GPUs)

Setup(c) ==
  /\ setPC = "asking" /\ Answers(c)
  /\ cfg' = c /\ cfgFile' = c /\ testnet' = c.Testnet
  /\ setPC' = "flags" /\ asked' = TRUE
  /\ UNCHANGED <<setFlags, engThreads>>

(* The end of the input, or a file that cannot be written.                 *)
SetupCancelled ==
  /\ setPC = "asking" /\ setPC' = "off"
  /\ UNCHANGED <<cfgFile, setFlags, cfg, testnet, engThreads, asked>>

-----------------------------------------------------------------------------
(* main: flags win over the file for this run.                             *)
Override(c, flags) ==
  [Wallet  |-> IF flags.wallet # NoAddress THEN flags.wallet ELSE c.Wallet,
   Node    |-> TRUE,
   Threads |-> IF flags.threads # Unset THEN flags.threads
               ELSE IF c.Threads < 0 THEN DefaultThreads ELSE c.Threads,
   GPUs    |-> IF flags.gpu # Unset THEN flags.gpu ELSE c.GPUs,
   Testnet |-> c.Testnet]

Always(c)        == TRUE
(* "nothing to mine with: 0 CPU threads and no GPU"                        *)
HasWork(c)       == c.Threads # 0 \/ c.GPUs # 0
AnyAddress(c, t) == c.Wallet # NoAddress
(* globals.ParseValidateAddress, on the network that was settled           *)
AddressFits(c, t) == c.Wallet = Net(t)

ApplyFlags ==
  /\ setPC = "flags"
  /\ cfg' = Override(cfg, setFlags)
  /\ IF HasWork(cfg') /\ AddressFits(cfg', testnet)
     THEN setPC' = "begun" /\ engThreads' = cfg'.Threads
     ELSE setPC' = "refused" /\ engThreads' = 0
  /\ UNCHANGED <<cfgFile, setFlags, testnet, asked>>

-----------------------------------------------------------------------------
(* commands.go *)

Clamped(n)    == TRUE
ThreadsFit(n) == n \in 0 .. maxThreads

(* threads <n>: absolute, or +n and -n on what runs.                       *)
ThreadsCommand(n) ==
  /\ setPC \in {"begun", "running"} /\ ThreadsFit(n)
  /\ engThreads' = n /\ cfg' = [cfg EXCEPT !.Threads = n]
  /\ setPC' = "running"
  /\ UNCHANGED <<cfgFile, setFlags, testnet, asked>>

SaveCommand ==
  /\ setPC \in {"begun", "running"}
  /\ cfgFile' = cfg
  /\ UNCHANGED <<setPC, setFlags, cfg, testnet, engThreads, asked>>

QuitCommand ==
  /\ setPC \in {"begun", "running"} /\ setPC' = "off" /\ engThreads' = 0
  /\ UNCHANGED <<cfgFile, setFlags, cfg, testnet, asked>>

SetNext ==
  \/ \E flags \in Flags : Start(flags)
  \/ \E c \in Config : Setup(c)
  \/ SetupCancelled \/ ApplyFlags
  \/ \E n \in -1 .. maxThreads + 1 : ThreadsCommand(n)
  \/ SaveCommand \/ QuitCommand

SetSpec == SetInit /\ [][SetNext]_setVars

-----------------------------------------------------------------------------
SetTypeOK ==
  /\ cfgFile \in Config /\ cfg \in Config /\ setFlags \in Flags
  /\ setPC \in {"off", "asking", "flags", "begun", "running", "refused"}
  /\ testnet \in BOOLEAN /\ engThreads \in 0 .. maxThreads /\ asked \in BOOLEAN

(* A run that begins has something to mine with and mines to an address of *)
(* the network it is on, whatever was saved by runs and flags before it.   *)
BeginsWithWork ==
  setPC = "begun" => (engThreads > 0 \/ cfg.GPUs > 0) /\ cfg.Wallet = Net(testnet)

(* A setup that was answered and not overridden always leads to a run: no  *)
(* combination of answers is saved that the same program then refuses.     *)
SetupIsEnough ==
  asked /\ setFlags \in {Plain, [Plain EXCEPT !.setup = TRUE]} => setPC # "refused"

(* What the program writes it can read: threads chosen and in range.       *)
SavedInRange == cfgFile # NoConfig => cfgFile.Threads \in 0 .. maxThreads /\ cfgFile.Node

(* Over any sequence of starts, setups, flags, commands and saves: a run   *)
(* that begins can mine, a setup that was answered leads to one, and what  *)
(* was saved can be read.                                                  *)
RunsCanBegin == SetTypeOK /\ BeginsWithWork /\ SetupIsEnough /\ SavedInRange

-----------------------------------------------------------------------------
(* main.go:43: the setup "saves the answers next to the executable, so     *)
(* afterwards you can just start it with no arguments."                    *)
JustStarts == cfgFile # NoConfig /\ setFlags = Plain => setPC # "refused"
=============================================================================
