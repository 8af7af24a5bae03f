---------------------------- MODULE Devices ----------------------------
(***************************************************************************)
(* The cards of a rig from the drivers to the screen.  gpu_backend.go      *)
(* numbers them, gpu_worker.go starts a worker for each that was asked     *)
(* for, gpu_sensors.go asks each vendor's library about its own and        *)
(* renumbers the answers, and main.go and statsfile.go put a card's rate   *)
(* and its readings in one row.  A card may give no reading, and its       *)
(* worker may give up or the card never have been there.                   *)
(***************************************************************************)
EXTENDS Naturals, Sequences, FiniteSets

CONSTANTS
  NvidiaCards, AmdCards,    \* devices each vendor's driver reports
  maxGPUs,
  GPULists,                 \* what cfg.GPUs may be
  RateTicks                 \* samples in a device's rate window, 80 in the code

ASSUME DevicesAssumption ==
  /\ NvidiaCards \in Nat /\ AmdCards \in Nat /\ maxGPUs \in Nat /\ RateTicks \in Nat \ {0}
  /\ \A list \in GPULists : list \in Seq(Nat)

VARIABLES
  cfgGPUs,      \* cfg.GPUs, fixed for the run; <<>> before SetGPUs
  gpuWorkers,   \* the devices in e.gpuWorkers; e.ngpu is how many
  gpuLive,      \* those of them whose goroutine still runs
  gpuFresh,     \* devices that counted a batch since the last sample
  perGPU,       \* the rate windows by device: whether each sample had hashes
  sensed,       \* the rows of the last sensor poll; card is whose reading it is
  silent        \* history: samples since a device last showed a hash

devVars == <<cfgGPUs, gpuWorkers, gpuLive, gpuFresh, perGPU, sensed, silent>>

DeviceNo == 0 .. maxGPUs - 1

DevInit ==
  /\ cfgGPUs = <<>> /\ gpuWorkers = {} /\ gpuLive = {} /\ gpuFresh = {} /\ sensed = {}
  /\ perGPU = [d \in DeviceNo |-> <<>>] /\ silent = [d \in DeviceNo |-> 0]

-----------------------------------------------------------------------------
(* gpu_backend.go: gpuDeviceList, NVIDIA first; index 0 is the first.      *)
gpuDeviceList ==
  [i \in 0 .. NvidiaCards + AmdCards - 1 |->
     IF i < NvidiaCards THEN [backend |-> "cuda", local |-> i]
                        ELSE [backend |-> "hip", local |-> i - NvidiaCards]]

(* gpu_sensors.go: splitByVendor.  What one vendor's library is asked for, *)
(* and the way back from its numbering to the miner's.                     *)
Present(devices) == {d \in {devices[i] : i \in 1 .. Len(devices)} : d \in DOMAIN gpuDeviceList}
AskedOf(vendor, devices) ==
  {gpuDeviceList[d].local : d \in {c \in Present(devices) : gpuDeviceList[c].backend = vendor}}
(* Slip: the vendor's own number goes through. *)
LocalNumber(vendor, local, devices) == local
Back(vendor, local, devices) ==
  CHOOSE d \in Present(devices) : gpuDeviceList[d] = [backend |-> vendor, local |-> local]

(* readGPUSensors, when answers are the cards that gave a reading.         *)
readGPUSensors(devices, answers) ==
  {[Index |-> Back(ref.backend, ref.local, devices), card |-> ref] :
     ref \in {a \in answers : a.local \in AskedOf(a.backend, devices)}}

-----------------------------------------------------------------------------
(* gpu_worker.go: SetGPUs, which run calls once.                           *)
Supported(d) == d \in DeviceNo

SetGPUs(list) ==
  /\ cfgGPUs = <<>> /\ list # <<>>
  /\ cfgGPUs' = list
  /\ gpuWorkers' = {d \in {list[i] : i \in 1 .. Len(list)} : Supported(d)}
  /\ gpuLive' = gpuWorkers'
  /\ UNCHANGED <<gpuFresh, perGPU, sensed, silent>>

(* RunGPUMiner returns: no such device, no memory, or a call that failed.  *)
(* It stays in e.gpuWorkers.                                               *)
WorkerGivesUp(d) ==
  /\ d \in gpuLive /\ gpuLive' = gpuLive \ {d}
  /\ UNCHANGED <<cfgGPUs, gpuWorkers, gpuFresh, perGPU, sensed, silent>>

BatchCounted(d) ==
  /\ d \in gpuLive /\ d \in DOMAIN gpuDeviceList
  /\ gpuFresh' = gpuFresh \cup {d}
  /\ UNCHANGED <<cfgGPUs, gpuWorkers, gpuLive, perGPU, sensed, silent>>

SensorPoll ==
  /\ cfgGPUs # <<>>
  /\ \E answers \in SUBSET {gpuDeviceList[d] : d \in Present(cfgGPUs)} :
       sensed' = readGPUSensors(cfgGPUs, answers)
  /\ UNCHANGED <<cfgGPUs, gpuWorkers, gpuLive, gpuFresh, perGPU, silent>>

-----------------------------------------------------------------------------
(* GPUDeviceList: the workers' devices, in order: the i-th is the one that *)
(* i - 1 others come before.                                               *)
Before(d) == {e \in gpuWorkers : e < d}
GPUDeviceList ==
  [i \in 1 .. Cardinality(gpuWorkers) |-> CHOOSE d \in gpuWorkers : Cardinality(Before(d)) = i - 1]

(* Slip: the window is never trimmed. *)
Grown(window, v) == Append(window, v)
(* rateWindow.add *)
Pushed(window, v) ==
  IF Len(window) < RateTicks THEN Append(window, v) ELSE Append(Tail(window), v)

(* sampler.tick: a device is first seen with the counter it has then.      *)
SamplerTick ==
  /\ cfgGPUs # <<>>
  /\ perGPU' = [d \in DeviceNo |->
       IF d \notin gpuWorkers THEN perGPU[d]
       ELSE Pushed(perGPU[d], perGPU[d] # <<>> /\ d \in gpuFresh)]
  /\ gpuFresh' = {}
  /\ silent' = [d \in DeviceNo |->
       IF d \notin gpuWorkers \/ (perGPU[d] # <<>> /\ d \in gpuFresh) THEN 0
       ELSE IF silent[d] < RateTicks THEN silent[d] + 1 ELSE RateTicks]
  /\ UNCHANGED <<cfgGPUs, gpuWorkers, gpuLive, sensed>>

DevNext ==
  \/ \E list \in GPULists : SetGPUs(list)
  \/ \E d \in DeviceNo : WorkerGivesUp(d) \/ BatchCounted(d)
  \/ SensorPoll \/ SamplerTick

DevSpec == DevInit /\ [][DevNext]_devVars

-----------------------------------------------------------------------------
(* main.go: buildDeviceRows.  A row's reading is the card it is of.        *)

NoReading == [backend |-> "none", local |-> 0]
gpuByIndex(i) ==
  IF \E g \in sensed : g.Index = i THEN (CHOOSE g \in sensed : g.Index = i).card ELSE NoReading

(* Slip: the window need not be full. *)
SilentSoFar(d) == \A i \in 1 .. Len(perGPU[d]) : ~perGPU[d][i]
(* row.Rate <= 0, and the window is full.                                  *)
Ailing(d) == (\A i \in 1 .. Len(perGPU[d]) : ~perGPU[d][i]) /\ Len(perGPU[d]) >= RateTicks

buildDeviceRows ==
  [i \in 1 .. Len(GPUDeviceList) |->
     LET d == GPUDeviceList[i]
     IN  [device |-> d, Ailing |-> Ailing(d), TempC |-> gpuByIndex(d)]]

(* statsfile.go: doc.  The rate and the temperature are the row's, the     *)
(* fan, the power and the name are looked up by how many rows came before. *)
statsDevices ==
  [i \in 1 .. Len(buildDeviceRows) |->
     [row |-> buildDeviceRows[i], Index |-> i - 1, FanPct |-> gpuByIndex(i - 1)]]

-----------------------------------------------------------------------------
Windows == UNION {[1 .. n -> BOOLEAN] : n \in 0 .. RateTicks}

DevTypeOK ==
  /\ gpuWorkers \subseteq DeviceNo /\ gpuLive \subseteq gpuWorkers /\ gpuFresh \subseteq gpuWorkers
  /\ perGPU \in [DeviceNo -> Windows]
  /\ \A g \in sensed : g.Index \in Nat
  /\ silent \in [DeviceNo -> 0 .. RateTicks]

(* The temperature in a card's row is that card's own, on a rig of two     *)
(* vendors, with any of its cards left out and any of them mute.           *)
RowIsOneCard ==
  \A i \in 1 .. Len(buildDeviceRows) :
    LET r == buildDeviceRows[i]
    IN  r.TempC # NoReading => r.device \in DOMAIN gpuDeviceList /\ r.TempC = gpuDeviceList[r.device]

(* A row is marked ailing exactly when its card has shown no hash for a    *)
(* whole window: a card that gave up is shown, one that is starting is not.*)
AilingIsSilent ==
  \A i \in 1 .. Len(buildDeviceRows) :
    LET r == buildDeviceRows[i] IN r.Ailing <=> silent[r.device] = RateTicks

(* As long as the miner mines every card from 0 on, the document's fan and *)
(* power of a row are those of the card whose rate the row has.            *)
DocRowIsOneCard ==
  gpuWorkers = 0 .. Len(GPUDeviceList) - 1 =>
    \A i \in 1 .. Len(statsDevices) :
      statsDevices[i].FanPct # NoReading =>
        statsDevices[i].FanPct = gpuDeviceList[statsDevices[i].row.device]

(* Every figure in a row is of the card the row names, and the mark on it  *)
(* is true.                                                                *)
RowsAreTrue == DevTypeOK /\ RowIsOneCard /\ AilingIsSilent /\ DocRowIsOneCard
=============================================================================
