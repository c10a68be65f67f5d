----------------------------- MODULE SmpProofs ------------------------------
(***************************************************************************)
(* Proofs about the start of the processors and about cross calls, for any *)
(* number of processors, any of which may fail to start, if none calls in  *)
(* after its time is up.                                                   *)
(***************************************************************************)
EXTENDS Smp, FiniteSetTheorems, TLAPS

-----------------------------------------------------------------------------
(* The start.  Where a processor may be: *)
Starting == {"off", "dead", "started", "calledin"}
Calling == {"lock", "fire", "func", "solo", "in", "out"}
Running == {"run"} \cup Calling

BootType ==
    /\ linux_num_cpus \in 1 .. NR_CPUS /\ boot_i \in 0 .. linux_num_cpus
    /\ pc \in [Cpus -> Starting \cup {"boot", "wait"} \cup Running]
    /\ cpu_callin_map \in [Cpus -> {0, 1}] /\ current_set \in [Cpus -> Nat]
    /\ cpucount \in Nat /\ smp_num_cpus \in 1 .. NR_CPUS
    /\ smp_processors_ready \in {0, 1} /\ smp_commenced \in {0, 1}
    /\ up \subseteq Cpus /\ cpu_present_map \subseteq Cpus

(* Only the boot processor is ever in smp4m_boot_cpus, and that is before  *)
(* anything else.                                                          *)
BootOrder ==
    /\ pc[0] \notin Starting
    /\ \A c \in Cpus \ {0} : pc[c] \notin {"boot", "wait"}
    /\ pc[0] \in {"boot", "wait"} =>
        boot_i > 0 /\ linux_num_cpus > 1 /\ smp_processors_ready = 0 /\ smp_commenced = 0
    /\ pc[0] = "wait" => boot_i < linux_num_cpus
    /\ boot_i = 0 => smp_processors_ready = 0 /\ smp_commenced = 0
    /\ smp_processors_ready = 1 => boot_i = linux_num_cpus /\ linux_num_cpus > 1
    /\ smp_processors_ready = 0 /\ pc[0] \notin {"boot", "wait"} =>
        boot_i = 0 \/ linux_num_cpus = 1

(* Those whose turn has come: each has called in, or will never. *)
Turn == {c \in Cpus : 0 < c /\ c < boot_i}
Counted == {c \in Turn : cpu_callin_map[c] = 1}
Untried == {c \in Cpus : boot_i < c \/ (c = boot_i /\ pc[0] # "wait")}

TurnsTaken ==
    /\ \A c \in Turn : cpu_callin_map[c] = 1 \/ pc[c] = "dead"
    /\ \A c \in Untried \ {0} : pc[c] = "off"
    /\ \A c \in Cpus \ {0} :
        /\ cpu_callin_map[c] = 1 <=> pc[c] \notin {"off", "dead", "started"}
        /\ c \in up <=> pc[c] \in Running
    /\ 0 \in up /\ cpu_callin_map[0] = 0

(* cpucount counts them, and the one that is being waited for. *)
CountAgrees ==
    /\ pc[0] # "wait" => cpucount = Cardinality(Counted)
    /\ pc[0] = "wait" => cpucount = Cardinality(Counted) + 1 /\ current_set[boot_i] = cpucount

(* Who finds its own number in current_set came after no failure. *)
NumbersAgree ==
    \A c \in Counted : current_set[c] = c => c <= Cardinality(Counted)

PresentAgrees ==
    /\ boot_i > 0 => cpu_present_map =
        {0} \cup Counted \cup {c \in Cpus : c # 0 /\ boot_i <= c /\ c < linux_num_cpus}
    /\ boot_i = 0 => cpu_present_map = {}
    /\ \A c \in up \ {0} : smp_commenced = 1 /\ current_set[c] = c
    /\ smp_processors_ready = 1 => smp_num_cpus = cpucount + 1 /\ freed = Unneeded(cpu_present_map)
    /\ smp_processors_ready = 0 => smp_num_cpus = 1

BootInv ==
    /\ BootType /\ BootOrder /\ TurnsTaken /\ CountAgrees /\ NumbersAgree /\ PresentAgrees

-----------------------------------------------------------------------------
(* Cross calls.  c holds the lock, and is between that and its release. *)
InCall(c) == pc[c] \in {"fire", "in", "out"} \/ (pc[c] = "func" /\ smp_processors_ready = 1)
Busy(j) == CROSS_CALL \in pend[j] \/ hpc[j] # "none"

(* Those of a call's targets that its loop has come to. *)
Fired(c) ==
    {j \in Cpus : j \in Targets(c) /\ j < smp_num_cpus /\ (pc[c] = "fire" => j < call_i[c])}

CallType ==
    /\ hpc \in [Cpus -> {"none", "func", "done"}] /\ pend \in [Cpus -> SUBSET IpiLevels]
    /\ processors_in \in [Cpus -> {0, 1}] /\ processors_out \in [Cpus -> {0, 1}]
    /\ call_i \in [Cpus -> Nat] /\ ran \in [Cpus -> SUBSET Cpus]
    /\ func \in Cpus /\ cross_call_lock \in {"free", "held"}

(* There is one at a time, and none before all processors are started. *)
OneCall ==
    /\ \A c \in Cpus : InCall(c) => func = c /\ cross_call_lock = "held"
    /\ \A c \in Cpus : InCall(c) /\ pc[c] # "func" => call_i[c] < smp_num_cpus
    /\ smp_processors_ready = 0 => \A c \in Cpus : pc[c] \notin {"lock", "fire", "in", "out"}
    /\ smp_processors_ready = 1 => \A c \in Cpus : pc[c] # "solo"

(* What is under way on another processor belongs to the call. *)
BusyForCall ==
    \A j \in Cpus : Busy(j) =>
        /\ InCall(func) /\ j \in Fired(func) /\ processors_out[j] = 0
        /\ ~(CROSS_CALL \in pend[j] /\ hpc[j] # "none")
        /\ (j \in ran[func] <=> hpc[j] = "done")

(* What is not under way any more is done. *)
FiredRan ==
    \A c \in Cpus : InCall(c) =>
        \A j \in Fired(c) : ~Busy(j) => processors_out[j] = 1 /\ j \in ran[c]

(* Where a call's function has run, as far as the call has come. *)
RanSoFar ==
    \A c \in Cpus :
        /\ pc[c] = "lock" => ran[c] = {}
        /\ pc[c] = "fire" => ran[c] \subseteq Fired(c)
        /\ pc[c] = "func" => c \notin ran[c]
        /\ pc[c] \in {"solo", "in", "out"} => c \in ran[c]
        /\ pc[c] = "out" => \A j \in Cpus : j < call_i[c] => processors_out[j] = 1

CallInv == CallType /\ OneCall /\ BusyForCall /\ FiredRan /\ RanSoFar

(* A failed ASSERT of dino1_send_ipi stops the machine in mid-call. *)
SmpInv == BootInv /\ panicked \in {0, 1} /\ (panicked = 0 => CallInv)

-----------------------------------------------------------------------------
(* The processors that called in are finitely many, and not all. *)
LEMMA CountedFinite ==
    ASSUME BootType
    PROVE  /\ IsFiniteSet(Counted) /\ Cardinality(Counted) \in Nat
           /\ Cardinality(Counted) <= NR_CPUS - 1
<1>1. NR_CPUS \in Nat /\ NR_CPUS > 0 /\ 0 \in Int /\ 1 \in Int /\ NR_CPUS - 1 \in Int
  BY CpusAssumption
<1>2. IsFiniteSet(1 .. NR_CPUS - 1) /\ Cardinality(1 .. NR_CPUS - 1) = NR_CPUS - 1
  <2>1. /\ IsFiniteSet(1 .. NR_CPUS - 1)
        /\ Cardinality(1 .. NR_CPUS - 1) =
              IF 1 > NR_CPUS - 1 THEN 0 ELSE (NR_CPUS - 1) - 1 + 1
    BY <1>1, FS_Interval
  <2> QED
    BY <1>1, <2>1
<1>3. Counted \in SUBSET (1 .. NR_CPUS - 1)
  BY <1>1 DEF Counted, Turn, Cpus
<1>4. IsFiniteSet(Counted) /\ Cardinality(Counted) <= Cardinality(1 .. NR_CPUS - 1)
  BY <1>2, <1>3, FS_Subset
<1> QED
  BY <1>2, <1>4, FS_CardinalityType

(* Before all are started, nobody but the boot processor runs the kernel. *)
LEMMA AloneAtFirst ==
    ASSUME BootInv, smp_processors_ready = 0
    PROVE  up = {0} /\ \A c \in Cpus \ {0} : pc[c] \notin Running
<1>1. ASSUME NEW c \in Cpus \ {0}, c \in up
      PROVE  FALSE
  <2>1. smp_commenced = 1
    BY <1>1 DEF BootInv, PresentAgrees
  <2>2. boot_i # 0 /\ pc[0] \notin {"boot", "wait"} /\ linux_num_cpus = 1
    BY <2>1 DEF BootInv, BootOrder
  <2>3. boot_i = 1
    BY <2>2 DEF BootInv, BootType
  <2>4. c \in Untried
    BY <1>1, <2>2, <2>3, CpusAssumption DEF Untried, Cpus
  <2>5. pc[c] = "off" /\ pc[c] \in Running
    BY <1>1, <2>4 DEF BootInv, TurnsTaken
  <2> QED
    BY <2>5 DEF Running, Calling
<1>2. 0 \in up /\ up \subseteq Cpus
  BY DEF BootInv, TurnsTaken, BootType
<1> QED
  BY <1>1, <1>2 DEF BootInv, TurnsTaken

(* The boot processor begins: all that the PROM knows of are present. *)
LEMMA BootCpusBoot ==
    ASSUME BootInv, smp4m_boot_cpus
    PROVE  BootInv'
<1> USE DEF BootInv, boot_cpu_id
<1>1. /\ pc[0] = "run" /\ boot_i = 0 /\ boot_i' = 1
      /\ cpu_present_map' = 0 .. linux_num_cpus - 1
      /\ pc' = [pc EXCEPT ![0] = IF linux_num_cpus = 1 THEN "run" ELSE "boot"]
      /\ UNCHANGED <<linux_num_cpus, cpucount, smp_num_cpus, smp_processors_ready,
                     cpu_callin_map, current_set, smp_commenced, freed, up>>
  BY DEF smp4m_boot_cpus, At, Goto
<1>2. NR_CPUS \in Nat /\ NR_CPUS > 0 /\ linux_num_cpus \in 1 .. NR_CPUS /\ 0 \in Cpus
  BY CpusAssumption DEF BootType, Cpus
<1>3. BootType'
  BY <1>1, <1>2 DEF BootType, Cpus, Running
<1>4. /\ smp_processors_ready = 0 /\ smp_commenced = 0
      /\ pc'[0] \in {"run", "boot"} /\ (pc'[0] = "boot" <=> linux_num_cpus # 1)
      /\ \A c \in Cpus \ {0} : pc'[c] = pc[c]
  BY <1>1, <1>2 DEF BootType, BootOrder
<1>5. BootOrder'
  BY <1>1, <1>2, <1>4 DEF BootOrder, Starting, BootType
<1>6. Turn = {} /\ Turn' = {} /\ Counted = {} /\ Counted' = {}
  BY <1>1 DEF Turn, Counted, Cpus
<1>7. \A c \in Untried' \ {0} : c \in Untried
  BY <1>1, <1>4 DEF Untried, Cpus
<1>8. TurnsTaken'
  BY <1>1, <1>4, <1>6, <1>7 DEF TurnsTaken, Untried
<1>9. CountAgrees' /\ NumbersAgree'
  BY <1>1, <1>4, <1>6 DEF CountAgrees, NumbersAgree
<1>10. PresentAgrees'
  BY <1>1, <1>2, <1>4, <1>6 DEF PresentAgrees, Cpus
<1> QED
  BY <1>3, <1>5, <1>8, <1>9, <1>10

(* It starts the next one, and waits. *)
LEMMA BootCpusStart ==
    ASSUME BootInv, boot_cpus_start
    PROVE  BootInv'
<1> USE DEF BootInv, boot_cpu_id
<1>1. PICK s \in {"started", "dead"} : pc' = [pc EXCEPT ![0] = "wait", ![boot_i] = s]
  BY DEF boot_cpus_start
<1>2. /\ pc[0] = "boot" /\ boot_i < linux_num_cpus /\ cpucount' = cpucount + 1
      /\ current_set' = [current_set EXCEPT ![boot_i] = cpucount + 1]
      /\ UNCHANGED <<linux_num_cpus, cpu_present_map, smp_num_cpus, smp_processors_ready,
                     cpu_callin_map, smp_commenced, boot_i, freed, up>>
  BY DEF boot_cpus_start, At
<1>3. NR_CPUS \in Nat /\ NR_CPUS > 0 /\ linux_num_cpus \in 1 .. NR_CPUS /\ 0 \in Cpus
  BY CpusAssumption DEF BootType, Cpus
<1>4. boot_i \in Cpus \ {0} /\ boot_i \in Nat /\ boot_i > 0
  BY <1>2, <1>3 DEF BootType, BootOrder, Cpus
<1>5. /\ pc'[0] = "wait" /\ pc'[boot_i] = s
      /\ \A c \in Cpus \ {0, boot_i} : pc'[c] = pc[c]
  BY <1>1, <1>3, <1>4 DEF BootType
<1>6. BootType'
  BY <1>1, <1>2, <1>3, <1>4 DEF BootType, Starting
<1>7. BootOrder'
  BY <1>2, <1>4, <1>5 DEF BootOrder, Starting
<1>8. boot_i \in Untried /\ pc[boot_i] = "off"
  BY <1>2, <1>4 DEF TurnsTaken, Untried
<1>9. /\ Turn' = Turn /\ Counted' = Counted /\ boot_i \notin Turn /\ 0 \notin Turn
      /\ Untried' \subseteq Untried \ {boot_i} /\ Turn \subseteq Cpus
  BY <1>2, <1>4, <1>5 DEF Turn, Counted, Untried
<1>10. TurnsTaken'
  <2>1. \A c \in Turn' : cpu_callin_map'[c] = 1 \/ pc'[c] = "dead"
    BY <1>2, <1>5, <1>9 DEF TurnsTaken
  <2>2. \A c \in Untried' \ {0} : pc'[c] = "off"
    BY <1>2, <1>5, <1>9 DEF TurnsTaken, Untried
  <2>3. \A c \in Cpus \ {0} :
          /\ cpu_callin_map'[c] = 1 <=> pc'[c] \notin {"off", "dead", "started"}
          /\ c \in up' <=> pc'[c] \in Running
    <3> SUFFICES ASSUME NEW c \in Cpus \ {0}
                 PROVE  /\ cpu_callin_map'[c] = 1 <=> pc'[c] \notin {"off", "dead", "started"}
                        /\ c \in up' <=> pc'[c] \in Running
      OBVIOUS
    <3>1. CASE c = boot_i
      BY <1>2, <1>4, <1>5, <1>8, <3>1 DEF TurnsTaken, Running, Calling
    <3>2. CASE c # boot_i
      BY <1>2, <1>5, <3>2 DEF TurnsTaken
    <3> QED
      BY <3>1, <3>2
  <2> QED
    BY <1>2, <2>1, <2>2, <2>3 DEF TurnsTaken
<1>11. CountAgrees'
  <2>1. current_set'[boot_i] = cpucount + 1
    BY <1>2, <1>4 DEF BootType
  <2> QED
    BY <1>2, <1>5, <1>9, <2>1 DEF CountAgrees
<1>12. NumbersAgree'
  BY <1>2, <1>4, <1>9 DEF NumbersAgree, BootType, Counted
<1>13. PresentAgrees'
  <2>1. boot_i \notin up
    BY <1>4, <1>8 DEF TurnsTaken, Running, Calling
  <2>2. \A c \in up : current_set'[c] = current_set[c]
    BY <1>2, <1>4, <2>1 DEF BootType
  <2>3. smp_processors_ready = 0
    BY <1>2 DEF BootOrder
  <2> QED
    BY <1>2, <1>9, <2>2, <2>3 DEF PresentAgrees
<1> QED
  BY <1>6, <1>7, <1>10, <1>11, <1>12, <1>13

(* It has waited: the processor called in, or is dead. *)
LEMMA BootCpusWait ==
    ASSUME BootInv, ~LateCallin, boot_cpus_wait
    PROVE  BootInv'
<1> USE DEF BootInv, boot_cpu_id
<1>1. /\ pc[0] = "wait" /\ boot_i' = boot_i + 1 /\ pc' = [pc EXCEPT ![0] = "boot"]
      /\ UNCHANGED <<linux_num_cpus, smp_num_cpus, smp_processors_ready, cpu_callin_map,
                     current_set, smp_commenced, freed, up>>
  BY DEF boot_cpus_wait, At, Goto
<1>2. \/ /\ cpu_callin_map[boot_i] = 1
         /\ UNCHANGED <<cpucount, cpu_present_map>>
      \/ /\ cpu_callin_map[boot_i] = 0 /\ pc[boot_i] = "dead"
         /\ cpucount' = cpucount - 1 /\ cpu_present_map' = cpu_present_map \ {boot_i}
  BY DEF boot_cpus_wait
<1>3. NR_CPUS \in Nat /\ NR_CPUS > 0 /\ linux_num_cpus \in 1 .. NR_CPUS /\ 0 \in Cpus
  BY CpusAssumption DEF BootType, Cpus
<1>4. boot_i \in Cpus \ {0} /\ boot_i \in Nat /\ boot_i > 0 /\ boot_i < linux_num_cpus
  BY <1>1, <1>3 DEF BootType, BootOrder, Cpus
<1>5. pc'[0] = "boot" /\ \A c \in Cpus \ {0} : pc'[c] = pc[c]
  BY <1>1, <1>3 DEF BootType
<1>6. IsFiniteSet(Counted) /\ Cardinality(Counted) \in Nat
  BY CountedFinite
<1>7. cpucount = Cardinality(Counted) + 1 /\ current_set[boot_i] = cpucount
  BY <1>1 DEF CountAgrees
<1>8. cpu_present_map = {0} \cup Counted
                            \cup {c \in Cpus : c # 0 /\ boot_i <= c /\ c < linux_num_cpus}
  BY <1>4 DEF PresentAgrees
<1>9. Turn' = Turn \cup {boot_i} /\ boot_i \notin Turn /\ boot_i \notin Counted
  BY <1>1, <1>4 DEF Turn, Counted, Cpus
<1>10. BootOrder'
  BY <1>1, <1>4, <1>5 DEF BootOrder, Starting
<1>11. TurnsTaken'
  <2>1. \A c \in Untried' \ {0} : c \in Untried
    BY <1>1, <1>3, <1>4, <1>5 DEF Untried, Cpus
  <2>2. \A c \in Turn' : cpu_callin_map'[c] = 1 \/ pc'[c] = "dead"
    BY <1>1, <1>2, <1>4, <1>5, <1>9 DEF TurnsTaken, Turn
  <2>3. \A c \in Untried' \ {0} : pc'[c] = "off"
    BY <1>5, <2>1 DEF TurnsTaken, Untried
  <2> QED
    BY <1>1, <1>5, <2>2, <2>3 DEF TurnsTaken
<1>12. CASE cpu_callin_map[boot_i] = 1
  <2>1. UNCHANGED <<cpucount, cpu_present_map>>
    BY <1>2, <1>12
  <2>2. Counted' = Counted \cup {boot_i}
    BY <1>1, <1>9, <1>12 DEF Counted
  <2>3. Cardinality(Counted') = Cardinality(Counted) + 1
    BY <1>6, <1>9, <2>2, FS_AddElement
  <2>4. BootType'
    BY <1>1, <1>3, <1>4, <2>1 DEF BootType
  <2>5. CountAgrees'
    BY <1>5, <1>7, <2>1, <2>3 DEF CountAgrees
  <2>6. NumbersAgree'
    <3> SUFFICES ASSUME NEW c \in Counted', current_set[c] = c
                 PROVE  c <= Cardinality(Counted) + 1
      BY <1>1, <2>3 DEF NumbersAgree
    <3>1. CASE c = boot_i
      BY <1>6, <1>7, <3>1
    <3>2. CASE c \in Counted
      <4>1. c <= Cardinality(Counted) /\ c \in Nat
        BY <1>3, <3>2 DEF NumbersAgree, Counted, Turn, Cpus
      <4> QED
        BY <1>6, <4>1
    <3> QED
      BY <2>2, <3>1, <3>2
  <2>7. PresentAgrees'
    <3>1. {c \in Cpus : c # 0 /\ boot_i <= c /\ c < linux_num_cpus} =
            {boot_i} \cup {c \in Cpus : c # 0 /\ boot_i + 1 <= c /\ c < linux_num_cpus}
      BY <1>3, <1>4 DEF Cpus
    <3>2. cpu_present_map' = {0} \cup Counted'
              \cup {c \in Cpus : c # 0 /\ boot_i' <= c /\ c < linux_num_cpus'}
      BY <1>1, <1>8, <2>1, <2>2, <3>1
    <3>3. boot_i' # 0 /\ smp_processors_ready = 0
      BY <1>1, <1>4 DEF BootOrder
    <3> QED
      BY <1>1, <3>2, <3>3 DEF PresentAgrees
  <2> QED
    BY <1>10, <1>11, <2>4, <2>5, <2>6, <2>7
<1>13. CASE cpu_callin_map[boot_i] # 1
  <2>1. cpucount' = cpucount - 1 /\ cpu_present_map' = cpu_present_map \ {boot_i}
    BY <1>2, <1>13
  <2>2. Counted' = Counted
    BY <1>1, <1>9, <1>13 DEF Counted
  <2>3. BootType'
    BY <1>1, <1>3, <1>4, <1>6, <1>7, <2>1 DEF BootType
  <2>4. CountAgrees' /\ NumbersAgree'
    BY <1>1, <1>5, <1>6, <1>7, <2>1, <2>2 DEF CountAgrees, NumbersAgree
  <2>5. PresentAgrees'
    <3>1. {c \in Cpus : c # 0 /\ boot_i <= c /\ c < linux_num_cpus} \ {boot_i} =
            {c \in Cpus : c # 0 /\ boot_i + 1 <= c /\ c < linux_num_cpus}
      BY <1>3, <1>4 DEF Cpus
    <3>2. cpu_present_map' = {0} \cup Counted'
              \cup {c \in Cpus : c # 0 /\ boot_i' <= c /\ c < linux_num_cpus'}
      BY <1>1, <1>4, <1>8, <1>9, <2>1, <2>2, <3>1
    <3>3. boot_i' # 0 /\ smp_processors_ready = 0
      BY <1>1, <1>4 DEF BootOrder
    <3> QED
      BY <1>1, <3>2, <3>3 DEF PresentAgrees
  <2> QED
    BY <1>10, <1>11, <2>3, <2>4, <2>5
<1> QED
  BY <1>12, <1>13

(* It has started all: who is present has called in. *)
LEMMA BootCpusFinish ==
    ASSUME BootInv, boot_cpus_finish
    PROVE  BootInv'
<1> USE DEF BootInv, boot_cpu_id
<1>1. /\ pc[0] = "boot" /\ boot_i = linux_num_cpus /\ smp_processors_ready' = 1
      /\ IF cpucount = 0
         THEN cpu_present_map' = {0} /\ UNCHANGED smp_num_cpus
         ELSE smp_num_cpus' = cpucount + 1 /\ UNCHANGED cpu_present_map
      /\ freed' = Unneeded(cpu_present_map') /\ pc' = [pc EXCEPT ![0] = "run"]
      /\ UNCHANGED <<linux_num_cpus, cpucount, cpu_callin_map, current_set, smp_commenced,
                     boot_i, up>>
  BY DEF boot_cpus_finish, At, Goto
<1>2. NR_CPUS \in Nat /\ NR_CPUS > 0 /\ linux_num_cpus \in 1 .. NR_CPUS /\ 0 \in Cpus
  BY CpusAssumption DEF BootType, Cpus
<1>3. /\ IsFiniteSet(Counted) /\ Cardinality(Counted) \in Nat
      /\ Cardinality(Counted) <= NR_CPUS - 1 /\ cpucount = Cardinality(Counted)
  BY <1>1, CountedFinite DEF CountAgrees
<1>4. pc'[0] = "run" /\ \A c \in Cpus \ {0} : pc'[c] = pc[c]
  BY <1>1, <1>2 DEF BootType
<1>5. /\ Counted' = Counted /\ Turn' = Turn
      /\ \A c \in Untried' \ {0} : c \in Untried
  BY <1>1, <1>4 DEF Counted, Turn, Untried
<1>6. cpu_present_map = {0} \cup Counted
  <2>1. {c \in Cpus : c # 0 /\ boot_i <= c /\ c < linux_num_cpus} = {}
    BY <1>1, <1>2 DEF Cpus
  <2>2. boot_i > 0
    BY <1>1, <1>2
  <2> QED
    BY <2>1, <2>2 DEF PresentAgrees
<1>7. cpu_present_map' = cpu_present_map /\ smp_num_cpus' = cpucount + 1
  <2>1. CASE cpucount = 0
    <3>1. Counted = {}
      BY <1>3, <2>1, FS_EmptySet
    <3>2. smp_num_cpus = 1
      BY <1>1 DEF BootOrder, PresentAgrees
    <3> QED
      BY <1>1, <1>6, <2>1, <3>1, <3>2
  <2>2. CASE cpucount # 0
    BY <1>1, <2>2
  <2> QED
    BY <2>1, <2>2
<1>8. BootType'
  BY <1>1, <1>2, <1>3, <1>7 DEF BootType, Running
<1>9. BootOrder'
  BY <1>1, <1>4 DEF BootOrder, Starting
<1>10. TurnsTaken'
  BY <1>1, <1>4, <1>5 DEF TurnsTaken, Turn, Untried
<1>11. CountAgrees' /\ NumbersAgree'
  BY <1>1, <1>3, <1>4, <1>5 DEF CountAgrees, NumbersAgree
<1>12. PresentAgrees'
  BY <1>1, <1>5, <1>7 DEF PresentAgrees, Unneeded
<1> QED
  BY <1>8, <1>9, <1>10, <1>11, <1>12

(* A processor calls in; its turn is not over, for then it would have      *)
(* called in already.                                                      *)
LEMMA CallinBoot ==
    ASSUME BootInv, NEW c \in Cpus, smp4m_callin(c)
    PROVE  BootInv'
<1> USE DEF BootInv, boot_cpu_id
<1>1. /\ pc[c] = "started" /\ cpu_callin_map' = [cpu_callin_map EXCEPT ![c] = 1]
      /\ pc' = [pc EXCEPT ![c] = "calledin"]
      /\ UNCHANGED <<linux_num_cpus, cpu_present_map, cpucount, smp_num_cpus,
                     smp_processors_ready, current_set, smp_commenced, boot_i, freed, up>>
  BY DEF smp4m_callin, At, Goto
<1>2. c # 0 /\ c \notin Turn
  BY <1>1 DEF BootOrder, Starting, TurnsTaken, BootType
<1>3. c \notin Untried
  BY <1>1, <1>2 DEF TurnsTaken
<1>4. /\ pc'[c] = "calledin" /\ cpu_callin_map'[c] = 1
      /\ \A d \in Cpus \ {c} : pc'[d] = pc[d] /\ cpu_callin_map'[d] = cpu_callin_map[d]
  BY <1>1 DEF BootType
<1>a. 0 \in Cpus
  BY CpusAssumption DEF Cpus
<1>5. Turn' = Turn /\ Counted' = Counted /\ Untried' = Untried
  BY <1>1, <1>2, <1>4, <1>a DEF Turn, Counted, Untried
<1>6. BootType'
  BY <1>1 DEF BootType, Starting
<1>7. BootOrder'
  BY <1>1, <1>2, <1>4, <1>a DEF BootOrder
<1>8. TurnsTaken'
  <2>1. \A d \in Turn' : cpu_callin_map'[d] = 1 \/ pc'[d] = "dead"
    BY <1>2, <1>4, <1>5 DEF TurnsTaken, Turn
  <2>2. \A d \in Untried' \ {0} : pc'[d] = "off"
    BY <1>3, <1>4, <1>5 DEF TurnsTaken, Untried
  <2>3. \A d \in Cpus \ {0} :
          /\ cpu_callin_map'[d] = 1 <=> pc'[d] \notin {"off", "dead", "started"}
          /\ d \in up' <=> pc'[d] \in Running
    <3> SUFFICES ASSUME NEW d \in Cpus \ {0}
                 PROVE  /\ cpu_callin_map'[d] = 1 <=> pc'[d] \notin {"off", "dead", "started"}
                        /\ d \in up' <=> pc'[d] \in Running
      OBVIOUS
    <3>1. CASE d = c
      BY <1>1, <1>2, <1>4, <3>1 DEF TurnsTaken, Running, Calling
    <3>2. CASE d # c
      BY <1>1, <1>4, <3>2 DEF TurnsTaken
    <3> QED
      BY <3>1, <3>2
  <2> QED
    BY <1>1, <1>2, <1>4, <1>a, <2>1, <2>2, <2>3 DEF TurnsTaken
<1>9. CountAgrees' /\ NumbersAgree' /\ PresentAgrees'
  BY <1>1, <1>2, <1>4, <1>5, <1>a DEF CountAgrees, NumbersAgree, PresentAgrees
<1> QED
  BY <1>6, <1>7, <1>8, <1>9

(* A processor that finds its number goes on into the kernel. *)
LEMMA CallinGoBoot ==
    ASSUME BootInv, NEW c \in Cpus, callin_go(c)
    PROVE  BootInv' /\ c \notin up
<1> USE DEF BootInv, boot_cpu_id
<1>1. /\ pc[c] = "calledin" /\ current_set[c] = c /\ smp_commenced = 1
      /\ pc' = [pc EXCEPT ![c] = "run"] /\ up' = up \cup {c}
      /\ UNCHANGED <<linux_num_cpus, cpu_present_map, cpucount, smp_num_cpus,
                     smp_processors_ready, cpu_callin_map, current_set, smp_commenced,
                     boot_i, freed>>
  BY DEF callin_go, At, Goto
<1>2. c # 0 /\ 0 \in Cpus
  BY <1>1, CpusAssumption DEF BootOrder, Starting, Cpus
<1>3. c \notin up
  BY <1>1, <1>2 DEF TurnsTaken, Running, Calling
<1>4. pc'[c] = "run" /\ \A d \in Cpus \ {c} : pc'[d] = pc[d]
  BY <1>1 DEF BootType
<1>5. Turn' = Turn /\ Counted' = Counted /\ Untried' = Untried
  BY <1>1, <1>2, <1>4 DEF Turn, Counted, Untried
<1>6. BootType'
  BY <1>1 DEF BootType, Running
<1>7. BootOrder'
  BY <1>1, <1>2, <1>4 DEF BootOrder
<1>8. TurnsTaken'
  <2>1. \A d \in Turn' : cpu_callin_map'[d] = 1 \/ pc'[d] = "dead"
    BY <1>1, <1>4, <1>5 DEF TurnsTaken, Turn
  <2>2. \A d \in Untried' \ {0} : pc'[d] = "off"
    BY <1>1, <1>4, <1>5 DEF TurnsTaken, Untried
  <2>3. \A d \in Cpus \ {0} :
          /\ cpu_callin_map'[d] = 1 <=> pc'[d] \notin {"off", "dead", "started"}
          /\ d \in up' <=> pc'[d] \in Running
    <3> SUFFICES ASSUME NEW d \in Cpus \ {0}
                 PROVE  /\ cpu_callin_map'[d] = 1 <=> pc'[d] \notin {"off", "dead", "started"}
                        /\ d \in up' <=> pc'[d] \in Running
      OBVIOUS
    <3>1. CASE d = c
      BY <1>1, <1>2, <1>4, <3>1 DEF TurnsTaken, Running
    <3>2. CASE d # c
      BY <1>1, <1>4, <3>2 DEF TurnsTaken
    <3> QED
      BY <3>1, <3>2
  <2> QED
    BY <1>1, <2>1, <2>2, <2>3 DEF TurnsTaken
<1>9. CountAgrees' /\ NumbersAgree' /\ PresentAgrees'
  BY <1>1, <1>2, <1>4, <1>5 DEF CountAgrees, NumbersAgree, PresentAgrees
<1> QED
  BY <1>3, <1>6, <1>7, <1>8, <1>9

(* smp_commence comes after the start of all processors. *)
LEMMA CommenceBoot ==
    ASSUME BootInv, smp_commence
    PROVE  BootInv'
<1> USE DEF BootInv, boot_cpu_id
<1>1. /\ pc[0] = "run" /\ boot_i > 0 /\ smp_commenced' = 1
      /\ UNCHANGED <<linux_num_cpus, cpu_present_map, cpucount, smp_num_cpus,
                     smp_processors_ready, cpu_callin_map, current_set, boot_i, freed, up, pc>>
  BY DEF smp_commence, At
<1>2. Turn' = Turn /\ Counted' = Counted /\ Untried' = Untried
  BY <1>1 DEF Turn, Counted, Untried
<1> QED
  BY <1>1, <1>2 DEF BootType, BootOrder, TurnsTaken, CountAgrees, NumbersAgree, PresentAgrees

(* All other steps are steps of running processors. *)
LEMMA BootKept ==
    ASSUME BootInv, UNCHANGED bootVars, NEW c \in Cpus, NEW where \in Running,
           \/ UNCHANGED pc
           \/ pc[c] \in Running /\ pc' = [pc EXCEPT ![c] = where]
    PROVE  BootInv'
<1> USE DEF BootInv
<1>1. /\ UNCHANGED <<linux_num_cpus, cpu_present_map, cpucount, smp_num_cpus,
                     smp_processors_ready, cpu_callin_map, current_set, smp_commenced,
                     boot_i, freed, up>>
      /\ 0 \in Cpus
  BY CpusAssumption DEF bootVars, Cpus
<1>2. pc' \in [Cpus -> Starting \cup {"boot", "wait"} \cup Running]
  BY DEF BootType
<1>3. \A d \in Cpus : pc'[d] = pc[d] \/ (pc[d] \in Running /\ pc'[d] \in Running)
  BY DEF BootType
<1>4. Turn' = Turn /\ Counted' = Counted /\ Untried' = Untried
  BY <1>1, <1>3 DEF Turn, Counted, Untried, Running, Calling
<1>5. BootType'
  BY <1>1, <1>2 DEF BootType
<1>6. BootOrder'
  BY <1>1, <1>3 DEF BootOrder, Running, Calling, Starting
<1>7. TurnsTaken'
  BY <1>1, <1>3, <1>4 DEF TurnsTaken, Running, Calling, Turn, Untried
<1>8. CountAgrees' /\ NumbersAgree' /\ PresentAgrees'
  BY <1>1, <1>3, <1>4 DEF CountAgrees, NumbersAgree, PresentAgrees, Running, Calling
<1> QED
  BY <1>5, <1>6, <1>7, <1>8

-----------------------------------------------------------------------------
(* Before all processors are started there is no call, and nothing of one. *)
LEMMA NoCallAtFirst ==
    ASSUME CallInv, smp_processors_ready = 0
    PROVE  \A j \in Cpus : ~InCall(j) /\ ~Busy(j)
BY DEF CallInv, OneCall, BusyForCall, InCall, CallType

(* The steps that are none of a cross call's. *)
LEMMA CallKept ==
    ASSUME CallInv, UNCHANGED <<callVars, hpc, smp_processors_ready, smp_num_cpus>>,
           pend' \in [Cpus -> SUBSET IpiLevels],
           \A j \in Cpus : CROSS_CALL \in pend'[j] <=> CROSS_CALL \in pend[j],
           UNCHANGED cpu_present_map \/ smp_processors_ready = 0,
           \A c \in Cpus : pc'[c] = pc[c] \/ (pc[c] \notin Calling /\ pc'[c] \notin Calling)
    PROVE  CallInv'
<1> USE DEF CallInv
<1>1. UNCHANGED <<cross_call_lock, func, processors_in, processors_out, call_i, ran>>
  BY DEF callVars
<1>2. CallType'
  BY <1>1 DEF CallType
<1>3. func \in Cpus
  BY DEF CallType
<1>4. \A j \in Cpus : (InCall(j)' <=> InCall(j)) /\ (Busy(j)' <=> Busy(j))
  BY DEF InCall, Busy, Calling
<1>5. \A c \in Cpus : InCall(c) => Fired(c)' = Fired(c)
  BY <1>1, NoCallAtFirst DEF InCall, Fired, Targets, Calling
<1>6. OneCall'
  BY <1>1, <1>4 DEF OneCall, Calling, InCall
<1>7. BusyForCall'
  <2> SUFFICES ASSUME NEW j \in Cpus, Busy(j)
               PROVE  /\ InCall(func) /\ j \in Fired(func)' /\ processors_out[j] = 0
                      /\ ~(CROSS_CALL \in pend[j] /\ hpc[j] # "none")
                      /\ (j \in ran[func] <=> hpc[j] = "done")
    BY <1>1, <1>3, <1>4 DEF BusyForCall
  <2>1. InCall(func) /\ j \in Fired(func)
    BY DEF BusyForCall
  <2>2. Fired(func)' = Fired(func)
    BY <1>1, <1>3, <1>5, <2>1
  <2> QED
    BY <2>1, <2>2 DEF BusyForCall
<1>8. FiredRan'
  <2> SUFFICES ASSUME NEW d \in Cpus, InCall(d)', NEW j \in Fired(d)', ~Busy(j)'
               PROVE  processors_out'[j] = 1 /\ j \in ran'[d]
    BY DEF FiredRan
  <2>1. j \in Cpus
    BY DEF Fired
  <2>2. InCall(d) /\ j \in Fired(d) /\ ~Busy(j)
    BY <1>4, <1>5, <2>1
  <2> QED
    BY <1>1, <2>2 DEF FiredRan
<1>9. RanSoFar'
  <2> SUFFICES ASSUME NEW c \in Cpus
               PROVE  /\ pc'[c] = "lock" => ran[c] = {}
                      /\ pc'[c] = "fire" => ran[c] \subseteq Fired(c)'
                      /\ pc'[c] = "func" => c \notin ran[c]
                      /\ pc'[c] \in {"solo", "in", "out"} => c \in ran[c]
                      /\ pc'[c] = "out" =>
                            \A j \in Cpus : j < call_i[c] => processors_out[j] = 1
    BY <1>1 DEF RanSoFar
  <2>1. pc'[c] = "fire" => Fired(c)' = Fired(c)
    BY <1>5 DEF InCall, Calling
  <2> QED
    BY <2>1 DEF RanSoFar, Calling
<1> QED
  BY <1>2, <1>6, <1>7, <1>8, <1>9

(* The start of the processors ends without a call under way. *)
LEMMA FinishCall ==
    ASSUME BootInv, CallInv, boot_cpus_finish
    PROVE  CallInv'
<1> USE DEF CallInv, boot_cpu_id
<1>1. /\ pc[0] = "boot" /\ pc' = [pc EXCEPT ![0] = "run"]
      /\ UNCHANGED <<callVars, hpc, pend>>
  BY DEF boot_cpus_finish, At, Goto
<1>2. smp_processors_ready = 0 /\ 0 \in Cpus
  BY <1>1, CpusAssumption DEF BootInv, BootOrder, Cpus
<1>3. \A c \in Cpus : pc'[c] \notin Calling
  <2>1. \A c \in Cpus \ {0} : pc[c] \notin Calling
    BY <1>2, AloneAtFirst DEF Running
  <2> QED
    BY <1>1, <1>2, <2>1 DEF BootInv, BootType, Calling
<1>4. \A j \in Cpus : ~Busy(j)'
  BY <1>1, <1>2, NoCallAtFirst DEF Busy
<1>5. CallType'
  BY <1>1 DEF CallType, callVars
<1>6. \A c \in Cpus : ~InCall(c)'
  BY <1>3 DEF InCall, Calling
<1> QED
  BY <1>3, <1>4, <1>5, <1>6 DEF OneCall, BusyForCall, FiredRan, RanSoFar, Calling

(* A call begins: nothing has run for it, and nothing can. *)
LEMMA CallBegins ==
    ASSUME BootInv, CallInv, NEW c \in Cpus, smp4m_cross_call(c)
    PROVE  CallInv'
<1> USE DEF CallInv
<1>1. /\ pc[c] = "run" /\ ran' = [ran EXCEPT ![c] = {}]
      /\ pc' = [pc EXCEPT ![c] = IF smp_processors_ready = 1 THEN "lock" ELSE "func"]
      /\ UNCHANGED <<cross_call_lock, func, processors_in, processors_out, call_i, pend, hpc,
                     smp_processors_ready, smp_num_cpus, cpu_present_map>>
  BY DEF smp4m_cross_call, At, Goto, bootVars
<1>2. /\ pc'[c] = IF smp_processors_ready = 1 THEN "lock" ELSE "func"
      /\ \A d \in Cpus \ {c} : pc'[d] = pc[d] /\ ran'[d] = ran[d]
      /\ ran'[c] = {}
  BY <1>1 DEF BootInv, BootType, CallType
<1>3. smp_processors_ready \in {0, 1} /\ func \in Cpus
  BY DEF BootInv, BootType, CallType
<1>4. CallType'
  BY <1>1 DEF CallType
<1>5. ~InCall(c) /\ ~InCall(c)'
  BY <1>1, <1>2, <1>3 DEF InCall
<1>6. \A j \in Cpus : (InCall(j)' <=> InCall(j)) /\ (Busy(j)' <=> Busy(j))
  BY <1>1, <1>2, <1>5 DEF InCall, Busy
<1>7. \A d \in Cpus \ {c} : Fired(d)' = Fired(d)
  BY <1>1, <1>2 DEF Fired, Targets
<1>8. OneCall'
  BY <1>1, <1>2, <1>3, <1>5, <1>6 DEF OneCall
<1>9. BusyForCall'
  <2> SUFFICES ASSUME NEW j \in Cpus, Busy(j)
               PROVE  /\ InCall(func) /\ j \in Fired(func)' /\ processors_out[j] = 0
                      /\ ~(CROSS_CALL \in pend[j] /\ hpc[j] # "none")
                      /\ (j \in ran'[func] <=> hpc[j] = "done")
    BY <1>1, <1>3, <1>6 DEF BusyForCall
  <2>1. InCall(func) /\ func # c
    BY <1>5 DEF BusyForCall
  <2>2. Fired(func)' = Fired(func) /\ ran'[func] = ran[func]
    BY <1>1, <1>2, <1>3, <1>7, <2>1
  <2> QED
    BY <2>1, <2>2 DEF BusyForCall
<1>10. FiredRan'
  <2> SUFFICES ASSUME NEW d \in Cpus, InCall(d)', NEW j \in Fired(d)', ~Busy(j)'
               PROVE  processors_out'[j] = 1 /\ j \in ran'[d]
    BY DEF FiredRan
  <2>1. j \in Cpus /\ d # c
    BY <1>5 DEF Fired
  <2>2. InCall(d) /\ j \in Fired(d) /\ ~Busy(j)
    BY <1>6, <1>7, <2>1
  <2> QED
    BY <1>1, <1>2, <2>1, <2>2 DEF FiredRan
<1>11. RanSoFar'
  BY <1>1, <1>2, <1>7 DEF RanSoFar
<1> QED
  BY <1>4, <1>8, <1>9, <1>10, <1>11

(* The lock is taken: nobody else is in a call. *)
LEMMA LockCall ==
    ASSUME BootInv, CallInv, NEW c \in Cpus, cross_call_lock_it(c)
    PROVE  CallInv'
<1> USE DEF CallInv
<1>1. /\ pc[c] = "lock" /\ cross_call_lock = "free" /\ cross_call_lock' = "held" /\ func' = c
      /\ call_i' = [call_i EXCEPT ![c] = 0] /\ pc' = [pc EXCEPT ![c] = "fire"]
      /\ UNCHANGED <<processors_in, processors_out, ran, pend, hpc,
                     smp_processors_ready, smp_num_cpus, cpu_present_map>>
  BY DEF cross_call_lock_it, At, Goto, bootVars
<1>2. /\ pc'[c] = "fire" /\ call_i'[c] = 0
      /\ \A d \in Cpus \ {c} : pc'[d] = pc[d] /\ call_i'[d] = call_i[d]
  BY <1>1 DEF BootInv, BootType, CallType
<1>3. smp_processors_ready = 1 /\ smp_num_cpus \in Nat /\ 0 < smp_num_cpus /\ Cpus \subseteq Nat
  BY <1>1, CpusAssumption DEF OneCall, BootInv, BootType, Cpus
<1>4. \A d \in Cpus : ~InCall(d) /\ ~Busy(d)
  BY <1>1 DEF OneCall, BusyForCall, CallType
<1>5. \A d \in Cpus \ {c} : ~InCall(d)'
  BY <1>1, <1>2, <1>4 DEF InCall
<1>6. Fired(c)' = {}
  <2>1. \A j \in Cpus : ~(j < call_i'[c])
    BY <1>2, <1>3
  <2> QED
    BY <1>2, <2>1 DEF Fired
<1>7. \A j \in Cpus : ~Busy(j)'
  BY <1>1, <1>4 DEF Busy
<1>8. CallType'
  BY <1>1 DEF CallType
<1>9. OneCall'
  BY <1>1, <1>2, <1>3, <1>5 DEF OneCall
<1>10. BusyForCall' /\ FiredRan'
  BY <1>5, <1>6, <1>7 DEF BusyForCall, FiredRan
<1>11. RanSoFar'
  <2> SUFFICES ASSUME NEW d \in Cpus
               PROVE  /\ pc'[d] = "lock" => ran'[d] = {}
                      /\ pc'[d] = "fire" => ran'[d] \subseteq Fired(d)'
                      /\ pc'[d] = "func" => d \notin ran'[d]
                      /\ pc'[d] \in {"solo", "in", "out"} => d \in ran'[d]
                      /\ pc'[d] = "out" =>
                            \A j \in Cpus : j < call_i'[d] => processors_out'[j] = 1
    BY DEF RanSoFar
  <2>1. CASE d = c
    BY <1>1, <1>2, <2>1 DEF RanSoFar
  <2>2. CASE d # c
    <3>1. pc'[d] # "fire"
      BY <1>5, <2>2 DEF InCall
    <3> QED
      BY <1>1, <1>2, <2>2, <3>1 DEF RanSoFar
  <2> QED
    BY <2>1, <2>2
<1> QED
  BY <1>8, <1>9, <1>10, <1>11

(* The loop comes to the next number: a target is interrupted. *)
LEMMA FireCall ==
    ASSUME BootInv, CallInv, NEW c \in Cpus, cross_call_fire(c), panicked' = 0
    PROVE  CallInv'
<1> USE DEF CallInv
<1> DEFINE k == call_i[c]
           v == IF k \in Targets(c) THEN 0 ELSE 1
<1>1. /\ pc[c] = "fire" /\ panicked = 0
      /\ processors_in' = [processors_in EXCEPT ![k] = v]
      /\ processors_out' = [processors_out EXCEPT ![k] = v]
      /\ call_i' = [call_i EXCEPT ![c] = k + 1]
      /\ pc' = [pc EXCEPT ![c] = IF k + 1 = smp_num_cpus THEN "func" ELSE "fire"]
      /\ UNCHANGED <<cross_call_lock, func, ran, hpc, smp_processors_ready, smp_num_cpus,
                     cpu_present_map>>
  BY DEF cross_call_fire, At, Goto, bootVars
<1>2. /\ k \in Targets(c) => pend' = [pend EXCEPT ![k] = @ \cup {CROSS_CALL}]
      /\ k \notin Targets(c) => pend' = pend
  <2>1. /\ k \in Targets(c) => dino1_send_ipi(k, CROSS_CALL)
        /\ k \notin Targets(c) => pend' = pend
    BY DEF cross_call_fire
  <2> QED
    BY <2>1 DEF dino1_send_ipi
<1>3. InCall(c) /\ func = c /\ cross_call_lock = "held" /\ k < smp_num_cpus
  BY <1>1 DEF OneCall, InCall
<1>4. /\ smp_processors_ready = 1 /\ smp_num_cpus \in 1 .. NR_CPUS /\ NR_CPUS \in Nat
      /\ Cpus \subseteq Nat /\ k \in Nat /\ k \in Cpus
  BY <1>1, <1>3, CpusAssumption DEF OneCall, BootInv, BootType, CallType, Cpus
<1>5. /\ pc'[c] = IF k + 1 = smp_num_cpus THEN "func" ELSE "fire"
      /\ call_i'[c] = k + 1
      /\ \A d \in Cpus \ {c} : pc'[d] = pc[d] /\ call_i'[d] = call_i[d]
  BY <1>1 DEF BootInv, BootType, CallType
<1>6. /\ processors_out'[k] = v
      /\ \A j \in Cpus \ {k} : processors_out'[j] = processors_out[j] /\ pend'[j] = pend[j]
      /\ k \notin Targets(c) => pend'[k] = pend[k]
      /\ k \in Targets(c) => CROSS_CALL \in pend'[k]
  BY <1>1, <1>2, <1>4 DEF CallType
<1>7. \A d \in Cpus \ {c} : ~InCall(d) /\ ~InCall(d)'
  BY <1>1, <1>3, <1>5 DEF OneCall, InCall
<1>8. Fired(c)' = Fired(c) \cup (Targets(c) \cap {k})
  <2>1. Targets(c)' = Targets(c)
    BY <1>1 DEF Targets
  <2>2. \A j \in Cpus : j < smp_num_cpus /\ (pc'[c] = "fire" => j < k + 1)
                          <=> j < k \/ j = k
    BY <1>3, <1>4, <1>5
  <2>3. \A j \in Cpus : j \in Fired(c)' <=> j \in Targets(c) /\ (j < k \/ j = k)
    BY <1>1, <1>5, <2>1, <2>2 DEF Fired
  <2>4. \A j \in Cpus : j \in Fired(c) <=> j \in Targets(c) /\ j < k
    BY <1>1, <1>3, <1>4 DEF Fired
  <2> QED
    BY <1>4, <2>3, <2>4 DEF Fired
<1>9. k \notin Fired(c) /\ c \notin Fired(c)
  BY <1>1, <1>4 DEF Fired, Targets
<1>10. ~Busy(k)
  BY <1>3, <1>4, <1>9 DEF BusyForCall
<1>11. \A j \in Cpus : Busy(j)' => Busy(j) \/ (j = k /\ k \in Targets(c))
  BY <1>1, <1>4, <1>6 DEF Busy
<1>12. CallType'
  <2>1. pend' \in [Cpus -> SUBSET IpiLevels]
    BY <1>2, <1>4 DEF CallType, IpiLevels, CROSS_CALL
  <2>2. v \in {0, 1} /\ k + 1 \in Nat
    BY <1>4
  <2> HIDE DEF v, k
  <2>3. /\ processors_in' \in [Cpus -> {0, 1}] /\ processors_out' \in [Cpus -> {0, 1}]
        /\ call_i' \in [Cpus -> Nat]
    BY <1>1, <2>2 DEF CallType
  <2> QED
    BY <1>1, <2>1, <2>3 DEF CallType
<1>13. OneCall'
  <2>1. \A d \in Cpus : InCall(d)' => func' = d /\ cross_call_lock' = "held"
    BY <1>1, <1>3, <1>7
  <2>2. \A d \in Cpus : InCall(d)' /\ pc'[d] # "func" => call_i'[d] < smp_num_cpus'
    <3>1. pc'[c] # "func" => k + 1 < smp_num_cpus
      BY <1>3, <1>4, <1>5
    <3> QED
      BY <1>1, <1>5, <1>7, <3>1
  <2> QED
    BY <1>1, <1>4, <1>5, <2>1, <2>2 DEF OneCall
<1>14. BusyForCall'
  <2> SUFFICES ASSUME NEW j \in Cpus, Busy(j)'
               PROVE  /\ InCall(func)' /\ j \in Fired(func)' /\ processors_out'[j] = 0
                      /\ ~(CROSS_CALL \in pend'[j] /\ hpc'[j] # "none")
                      /\ (j \in ran'[func'] <=> hpc'[j] = "done")
    BY DEF BusyForCall
  <2>1. InCall(c)'
    BY <1>1, <1>4, <1>5 DEF InCall
  <2>2. CASE j = k
    <3>1. k \in Targets(c) /\ hpc[k] = "none"
      BY <1>10, <1>11, <2>2 DEF Busy
    <3>2. k \notin ran[c]
      BY <1>1, <1>9 DEF RanSoFar
    <3> QED
      BY <1>1, <1>3, <1>6, <1>8, <2>1, <2>2, <3>1, <3>2
  <2>3. CASE j # k
    <3>1. Busy(j)
      BY <1>11, <2>3
    <3>2. /\ j \in Fired(c) /\ processors_out[j] = 0
          /\ ~(CROSS_CALL \in pend[j] /\ hpc[j] # "none")
          /\ (j \in ran[c] <=> hpc[j] = "done")
      BY <1>3, <3>1 DEF BusyForCall
    <3> QED
      BY <1>1, <1>3, <1>6, <1>8, <2>1, <2>3, <3>2
  <2> QED
    BY <2>2, <2>3
<1>15. FiredRan'
  <2> SUFFICES ASSUME NEW d \in Cpus, InCall(d)', NEW j \in Fired(d)', ~Busy(j)'
               PROVE  processors_out'[j] = 1 /\ j \in ran'[d]
    BY DEF FiredRan
  <2>1. d = c
    BY <1>7
  <2>2. j # k
    BY <1>6, <1>8, <1>9, <2>1 DEF Busy
  <2>3. j \in Cpus /\ j \in Fired(c) /\ ~Busy(j)
    BY <1>1, <1>6, <1>8, <2>1, <2>2 DEF Fired, Busy
  <2> QED
    BY <1>1, <1>3, <1>6, <2>1, <2>2, <2>3 DEF FiredRan
<1>16. RanSoFar'
  <2> SUFFICES ASSUME NEW d \in Cpus
               PROVE  /\ pc'[d] = "lock" => ran'[d] = {}
                      /\ pc'[d] = "fire" => ran'[d] \subseteq Fired(d)'
                      /\ pc'[d] = "func" => d \notin ran'[d]
                      /\ pc'[d] \in {"solo", "in", "out"} => d \in ran'[d]
                      /\ pc'[d] = "out" =>
                            \A j \in Cpus : j < call_i'[d] => processors_out'[j] = 1
    BY DEF RanSoFar
  <2>1. CASE d = c
    <3>1. ran[c] \subseteq Fired(c)
      BY <1>1 DEF RanSoFar
    <3> QED
      BY <1>1, <1>5, <1>8, <1>9, <2>1, <3>1
  <2>2. CASE d # c
    <3>1. pc'[d] \notin {"fire", "out"}
      BY <1>7, <2>2 DEF InCall
    <3> QED
      BY <1>1, <1>5, <2>2, <3>1 DEF RanSoFar
  <2> QED
    BY <2>1, <2>2
<1> QED
  BY <1>12, <1>13, <1>14, <1>15, <1>16

(* The caller goes on after its loop: what it waits for stays as it is. *)
LEMMA CallerGoesOn ==
    ASSUME BootInv, CallInv, NEW c \in Cpus, InCall(c), pc[c] # "fire",
           NEW where \in {"in", "out"}, pc' = [pc EXCEPT ![c] = where],
           NEW n \in Nat, call_i' = [call_i EXCEPT ![c] = n], n < smp_num_cpus,
           ran' = [ran EXCEPT ![c] = @ \cup {c}],
           where = "out" => \A j \in Cpus : j < n => processors_out[j] = 1,
           UNCHANGED <<cross_call_lock, func, processors_in, processors_out, pend, hpc,
                       smp_processors_ready, smp_num_cpus, cpu_present_map>>
    PROVE  CallInv'
<1> USE DEF CallInv
<1>1. func = c /\ cross_call_lock = "held"
  BY DEF OneCall
<1>2. /\ pc'[c] = where /\ call_i'[c] = n /\ ran'[c] = ran[c] \cup {c}
      /\ \A d \in Cpus \ {c} : pc'[d] = pc[d] /\ call_i'[d] = call_i[d] /\ ran'[d] = ran[d]
  BY DEF BootInv, BootType, CallType
<1>3. smp_processors_ready = 1
  BY DEF InCall, OneCall, BootInv, BootType
<1>4. InCall(c)' /\ \A d \in Cpus \ {c} : ~InCall(d) /\ ~InCall(d)'
  BY <1>1, <1>2 DEF OneCall, InCall
<1>5. Fired(c)' = Fired(c) /\ c \notin Fired(c)
  BY <1>2 DEF Fired, Targets
<1>6. \A j \in Cpus : Busy(j)' <=> Busy(j)
  BY DEF Busy
<1>7. CallType'
  BY DEF CallType
<1>8. OneCall'
  BY <1>1, <1>2, <1>3, <1>4 DEF OneCall
<1>9. BusyForCall'
  <2> SUFFICES ASSUME NEW j \in Cpus, Busy(j)'
               PROVE  /\ InCall(func)' /\ j \in Fired(func)' /\ processors_out'[j] = 0
                      /\ ~(CROSS_CALL \in pend'[j] /\ hpc'[j] # "none")
                      /\ (j \in ran'[func'] <=> hpc'[j] = "done")
    BY DEF BusyForCall
  <2>1. /\ j \in Fired(c) /\ processors_out[j] = 0
        /\ ~(CROSS_CALL \in pend[j] /\ hpc[j] # "none")
        /\ (j \in ran[c] <=> hpc[j] = "done")
    BY <1>1, <1>6 DEF BusyForCall
  <2> QED
    BY <1>1, <1>2, <1>4, <1>5, <2>1
<1>10. FiredRan'
  <2> SUFFICES ASSUME NEW d \in Cpus, InCall(d)', NEW j \in Fired(d)', ~Busy(j)'
               PROVE  processors_out'[j] = 1 /\ j \in ran'[d]
    BY DEF FiredRan
  <2>1. d = c /\ j \in Cpus /\ j \in Fired(c) /\ ~Busy(j)
    BY <1>4, <1>5, <1>6 DEF Fired
  <2> QED
    BY <1>2, <2>1 DEF FiredRan
<1>11. RanSoFar'
  <2> SUFFICES ASSUME NEW d \in Cpus
               PROVE  /\ pc'[d] = "lock" => ran'[d] = {}
                      /\ pc'[d] = "fire" => ran'[d] \subseteq Fired(d)'
                      /\ pc'[d] = "func" => d \notin ran'[d]
                      /\ pc'[d] \in {"solo", "in", "out"} => d \in ran'[d]
                      /\ pc'[d] = "out" =>
                            \A j \in Cpus : j < call_i'[d] => processors_out'[j] = 1
    BY DEF RanSoFar
  <2>1. CASE d = c
    BY <1>2, <2>1
  <2>2. CASE d # c
    <3>1. pc'[d] # "fire"
      BY <1>4, <2>2 DEF InCall
    <3> QED
      BY <1>2, <2>2, <3>1 DEF RanSoFar
  <2> QED
    BY <2>1, <2>2
<1> QED
  BY <1>7, <1>8, <1>9, <1>10, <1>11

(* The local call, with others to wait for and without. *)
LEMMA FuncCall ==
    ASSUME BootInv, CallInv, NEW c \in Cpus, cross_call_func(c)
    PROVE  CallInv'
<1> USE DEF CallInv
<1>1. /\ pc[c] = "func" /\ ran' = [ran EXCEPT ![c] = @ \cup {c}]
      /\ call_i' = [call_i EXCEPT ![c] = 0]
      /\ pc' = [pc EXCEPT ![c] = IF smp_processors_ready = 1 THEN "in" ELSE "solo"]
      /\ UNCHANGED <<cross_call_lock, func, processors_in, processors_out, pend, hpc,
                     smp_processors_ready, smp_num_cpus, cpu_present_map>>
  BY DEF cross_call_func, At, Goto, bootVars
<1>2. smp_num_cpus \in Nat /\ 0 < smp_num_cpus /\ Cpus \subseteq Nat
  BY CpusAssumption DEF BootInv, BootType, Cpus
<1>3. CASE smp_processors_ready = 1
  <2>1. InCall(c) /\ pc[c] # "fire" /\ pc' = [pc EXCEPT ![c] = "in"]
    BY <1>1, <1>3 DEF InCall
  <2> QED
    BY <1>1, <1>2, <2>1, CallerGoesOn
<1>4. CASE smp_processors_ready # 1
  <2>1. smp_processors_ready = 0 /\ pc' = [pc EXCEPT ![c] = "solo"]
    BY <1>1, <1>4 DEF BootInv, BootType
  <2>2. \A j \in Cpus : ~InCall(j) /\ ~Busy(j)
    BY <2>1, NoCallAtFirst
  <2>3. /\ pc'[c] = "solo" /\ ran'[c] = ran[c] \cup {c}
        /\ \A d \in Cpus \ {c} : pc'[d] = pc[d] /\ ran'[d] = ran[d] /\ call_i'[d] = call_i[d]
    BY <1>1, <2>1 DEF BootInv, BootType, CallType
  <2>4. \A j \in Cpus : ~InCall(j)' /\ ~Busy(j)'
    BY <1>1, <2>2, <2>3 DEF InCall, Busy
  <2>5. CallType'
    BY <1>1 DEF CallType
  <2>6. OneCall' /\ BusyForCall' /\ FiredRan'
    BY <1>1, <2>1, <2>3, <2>4 DEF OneCall, BusyForCall, FiredRan
  <2>7. RanSoFar'
    BY <1>1, <2>1, <2>3 DEF RanSoFar, OneCall
  <2> QED
    BY <2>5, <2>6, <2>7
<1> QED
  BY <1>3, <1>4

(* A call without others returns. *)
LEMMA SoloCall ==
    ASSUME BootInv, CallInv, NEW c \in Cpus, cross_call_solo(c)
    PROVE  CallInv'
<1> USE DEF CallInv
<1>1. /\ pc[c] = "solo" /\ pc' = [pc EXCEPT ![c] = "run"]
      /\ UNCHANGED <<cross_call_lock, func, processors_in, processors_out, call_i, ran, pend, hpc,
                     smp_processors_ready, smp_num_cpus, cpu_present_map>>
  BY DEF cross_call_solo, At, Goto, bootVars, callVars
<1>2. smp_processors_ready = 0
  BY <1>1 DEF OneCall, BootInv, BootType
<1>3. \A j \in Cpus : ~InCall(j) /\ ~Busy(j)
  BY <1>2, NoCallAtFirst
<1>4. pc'[c] = "run" /\ \A d \in Cpus \ {c} : pc'[d] = pc[d]
  BY <1>1 DEF BootInv, BootType
<1>5. \A j \in Cpus : ~InCall(j)' /\ ~Busy(j)'
  BY <1>1, <1>3, <1>4 DEF InCall, Busy
<1>6. CallType'
  BY <1>1 DEF CallType
<1>7. OneCall' /\ BusyForCall' /\ FiredRan'
  BY <1>1, <1>2, <1>4, <1>5 DEF OneCall, BusyForCall, FiredRan
<1>8. RanSoFar'
  BY <1>1, <1>2, <1>4 DEF RanSoFar, OneCall
<1> QED
  BY <1>6, <1>7, <1>8

(* The caller waits for the others to be in. *)
LEMMA WaitInCall ==
    ASSUME BootInv, CallInv, NEW c \in Cpus, cross_call_wait_in(c)
    PROVE  CallInv'
<1> USE DEF CallInv
<1> DEFINE last == call_i[c] + 1 >= smp_num_cpus
           n == IF last THEN 0 ELSE call_i[c] + 1
           where == IF last THEN "out" ELSE "in"
<1>1. /\ pc[c] = "in" /\ call_i' = [call_i EXCEPT ![c] = n] /\ pc' = [pc EXCEPT ![c] = where]
      /\ UNCHANGED <<cross_call_lock, func, processors_in, processors_out, ran, pend, hpc,
                     smp_processors_ready, smp_num_cpus, cpu_present_map>>
  BY DEF cross_call_wait_in, At, Goto, bootVars
<1>2. /\ smp_num_cpus \in Nat /\ 0 < smp_num_cpus /\ Cpus \subseteq Nat /\ call_i[c] \in Nat
  BY CpusAssumption DEF BootInv, BootType, Cpus, CallType
<1>3. InCall(c) /\ c \in ran[c]
  BY <1>1 DEF InCall, RanSoFar
<1>4. ran' = [ran EXCEPT ![c] = @ \cup {c}]
  BY <1>1, <1>3 DEF CallType
<1>5. n \in Nat /\ n < smp_num_cpus /\ where \in {"in", "out"}
  BY <1>2
<1>6. where = "out" => \A j \in Cpus : j < n => processors_out[j] = 1
  BY <1>2
<1> HIDE DEF n, where
<1> QED
  BY <1>1, <1>3, <1>4, <1>5, <1>6, CallerGoesOn

(* Then it waits for them to be out, and returns when nothing of the call  *)
(* is under way any more, and its function has run everywhere.             *)
LEMMA WaitOutCall ==
    ASSUME BootInv, CallInv, NEW c \in Cpus, cross_call_wait_out(c)
    PROVE  /\ CallInv'
           /\ pc'[c] = "run" => \A j \in cpu_present_map : j < smp_num_cpus => j \in ran[c]
<1> USE DEF CallInv
<1> DEFINE last == call_i[c] + 1 >= smp_num_cpus
<1>1. /\ pc[c] = "out" /\ processors_out[call_i[c]] = 1
      /\ call_i' = [call_i EXCEPT ![c] = IF last THEN 0 ELSE call_i[c] + 1]
      /\ pc' = [pc EXCEPT ![c] = IF last THEN "run" ELSE "out"]
      /\ cross_call_lock' = IF last THEN "free" ELSE cross_call_lock
      /\ UNCHANGED <<func, processors_in, processors_out, ran, pend, hpc,
                     smp_processors_ready, smp_num_cpus, cpu_present_map>>
  BY DEF cross_call_wait_out, AllOut, At, Goto, bootVars
<1>2. /\ smp_num_cpus \in Nat /\ 0 < smp_num_cpus /\ Cpus \subseteq Nat /\ call_i[c] \in Nat
  BY CpusAssumption DEF BootInv, BootType, Cpus, CallType
<1>3. InCall(c) /\ c \in ran[c] /\ func = c /\ call_i[c] < smp_num_cpus
  BY <1>1 DEF InCall, RanSoFar, OneCall
<1>4. \A j \in Cpus : j < call_i[c] + 1 => processors_out[j] = 1
  BY <1>1, <1>2 DEF RanSoFar
<1>5. CASE ~last
  <2>1. /\ call_i[c] + 1 \in Nat /\ call_i[c] + 1 < smp_num_cpus
        /\ ran' = [ran EXCEPT ![c] = @ \cup {c}]
    BY <1>1, <1>2, <1>3, <1>5 DEF CallType
  <2>2. pc' = [pc EXCEPT ![c] = "out"] /\ call_i' = [call_i EXCEPT ![c] = call_i[c] + 1]
    BY <1>1, <1>5
  <2>3. UNCHANGED cross_call_lock /\ pc[c] # "fire"
    BY <1>1, <1>5
  <2>4. CallInv'
    BY <1>1, <1>3, <1>4, <2>1, <2>2, <2>3, CallerGoesOn
  <2>5. pc'[c] # "run"
    BY <2>2 DEF BootInv, BootType
  <2> QED
    BY <2>4, <2>5
<1>6. CASE last
  <2>1. /\ pc' = [pc EXCEPT ![c] = "run"] /\ cross_call_lock' = "free"
        /\ call_i' = [call_i EXCEPT ![c] = 0]
    BY <1>1, <1>6
  <2>2. \A j \in Cpus : j < smp_num_cpus => processors_out[j] = 1
    <3>1. \A j \in Cpus : j < smp_num_cpus => j < call_i[c] + 1
      BY <1>2, <1>3, <1>6
    <3> QED
      BY <1>4, <3>1
  <2>3. \A j \in Cpus : ~Busy(j)
    <3> SUFFICES ASSUME NEW j \in Cpus, Busy(j)
                 PROVE  FALSE
      OBVIOUS
    <3>1. j < smp_num_cpus /\ processors_out[j] = 0
      BY DEF BusyForCall, Fired
    <3> QED
      BY <2>2, <3>1
  <2>4. /\ pc'[c] = "run"
        /\ \A d \in Cpus \ {c} : pc'[d] = pc[d] /\ call_i'[d] = call_i[d]
    BY <2>1 DEF BootInv, BootType, CallType
  <2>5. \A d \in Cpus : ~InCall(d)' /\ ~Busy(d)'
    BY <1>1, <1>3, <2>3, <2>4 DEF InCall, Busy, OneCall
  <2>6. CallType'
    BY <1>1, <2>1 DEF CallType
  <2>7. OneCall' /\ BusyForCall' /\ FiredRan'
    BY <1>1, <2>4, <2>5 DEF OneCall, BusyForCall, FiredRan
  <2>8. RanSoFar'
    <3>1. \A d \in Cpus : pc'[d] # "fire"
      BY <2>5 DEF InCall
    <3> QED
      BY <1>1, <2>4, <3>1 DEF RanSoFar
  <2>9. \A j \in cpu_present_map : j < smp_num_cpus => j \in ran[c]
    <3> SUFFICES ASSUME NEW j \in cpu_present_map, j < smp_num_cpus, j # c
                 PROVE  j \in ran[c]
      BY <1>3
    <3>1. j \in Cpus
      BY DEF BootInv, BootType
    <3>2. j \in Fired(c)
      BY <1>1, <3>1 DEF Fired, Targets
    <3> QED
      BY <1>3, <2>3, <3>1, <3>2 DEF FiredRan
  <2> QED
    BY <2>6, <2>7, <2>8, <2>9
<1> QED
  BY <1>5, <1>6

(* The handler begins, runs the function, and reports.  It is in the call  *)
(* that is under way, on a processor that has not run the function yet.    *)
LEMMA IrqCall ==
    ASSUME BootInv, CallInv, NEW c \in Cpus, CallIrq(c)
    PROVE  /\ CallInv'
           /\ hpc[c] = "func" => InCall(func) /\ c \notin ran[func] /\ func \in Cpus
<1> USE DEF CallInv
<1>1. UNCHANGED <<pc, call_i, cross_call_lock, func, smp_processors_ready, smp_num_cpus,
                  cpu_present_map>>
  BY DEF CallIrq, smp4m_cross_call_irq, cross_call_irq_func, cross_call_irq_done, bootVars
<1>2. Busy(c)
  BY DEF Busy, CallIrq, smp4m_cross_call_irq, cross_call_irq_func, cross_call_irq_done
<1>3. /\ InCall(func) /\ c \in Fired(func) /\ processors_out[c] = 0
      /\ ~(CROSS_CALL \in pend[c] /\ hpc[c] # "none")
      /\ (c \in ran[func] <=> hpc[c] = "done")
  BY <1>2 DEF BusyForCall
<1>4. func \in Cpus /\ c # func
  BY <1>3 DEF CallType, Fired, Targets
<1>5. \A d \in Cpus : (InCall(d)' <=> InCall(d)) /\ Fired(d)' = Fired(d)
  BY <1>1 DEF InCall, Fired, Targets
<1>6. OneCall'
  BY <1>1, <1>5 DEF OneCall
<1>7. \A d \in Cpus : InCall(d) => d = func
  BY DEF OneCall
<1>8. /\ \A j \in Cpus \ {c} : /\ pend'[j] = pend[j] /\ hpc'[j] = hpc[j]
                               /\ processors_out'[j] = processors_out[j]
      /\ processors_out'[c] \in {processors_out[c], 1}
      /\ \A d \in Cpus \ {func} : ran'[d] = ran[d]
      /\ ran'[func] = ran[func] \/ ran'[func] = ran[func] \cup {c}
  BY <1>4 DEF CallIrq, smp4m_cross_call_irq, cross_call_irq_func, cross_call_irq_done, ReportOut,
              CallType
<1>9. CallType'
  <2>1. CASE smp4m_cross_call_irq(c)
    BY <1>1, <2>1 DEF smp4m_cross_call_irq, CallType
  <2>2. CASE cross_call_irq_func(c)
    BY <1>1, <1>4, <2>2 DEF cross_call_irq_func, CallType
  <2>3. CASE cross_call_irq_done(c)
    BY <1>1, <2>3 DEF cross_call_irq_done, ReportOut, CallType
  <2> QED
    BY <2>1, <2>2, <2>3 DEF CallIrq
<1>10. /\ Busy(c)' => /\ processors_out'[c] = 0
                      /\ ~(CROSS_CALL \in pend'[c] /\ hpc'[c] # "none")
                      /\ (c \in ran'[func] <=> hpc'[c] = "done")
       /\ ~Busy(c)' => processors_out'[c] = 1 /\ c \in ran'[func]
  <2>1. CASE smp4m_cross_call_irq(c)
    <3>1. /\ hpc[c] = "none" /\ hpc'[c] = "func" /\ CROSS_CALL \notin pend'[c]
          /\ UNCHANGED <<processors_out, ran>>
      BY <2>1 DEF smp4m_cross_call_irq, CallType
    <3> QED
      BY <1>3, <3>1 DEF Busy
  <2>2. CASE cross_call_irq_func(c)
    <3>1. /\ hpc[c] = "func" /\ hpc'[c] = "done" /\ UNCHANGED <<pend, processors_out>>
          /\ c \in ran'[func]
      BY <1>4, <2>2 DEF cross_call_irq_func, CallType
    <3> QED
      BY <1>3, <3>1 DEF Busy
  <2>3. CASE cross_call_irq_done(c)
    <3>1. /\ hpc[c] = "done" /\ hpc'[c] = "none" /\ UNCHANGED <<pend, ran>>
          /\ processors_out'[c] = 1
      BY <2>3 DEF cross_call_irq_done, ReportOut, CallType
    <3> QED
      BY <1>3, <3>1 DEF Busy
  <2> QED
    BY <2>1, <2>2, <2>3 DEF CallIrq
<1>11. \A j \in Cpus \ {c} : Busy(j)' <=> Busy(j)
  BY <1>8 DEF Busy
<1>12. BusyForCall'
  <2> SUFFICES ASSUME NEW j \in Cpus, Busy(j)'
               PROVE  /\ InCall(func)' /\ j \in Fired(func)' /\ processors_out'[j] = 0
                      /\ ~(CROSS_CALL \in pend'[j] /\ hpc'[j] # "none")
                      /\ (j \in ran'[func'] <=> hpc'[j] = "done")
    BY DEF BusyForCall
  <2>1. InCall(func)'
    BY <1>1, <1>3, <1>4, <1>5
  <2>2. Fired(func)' = Fired(func)
    BY <1>1, <1>4, <1>5
  <2>3. CASE j = c
    BY <1>1, <1>3, <1>10, <2>1, <2>2, <2>3
  <2>4. CASE j # c
    <3>1. /\ j \in Fired(func) /\ processors_out[j] = 0
          /\ ~(CROSS_CALL \in pend[j] /\ hpc[j] # "none")
          /\ (j \in ran[func] <=> hpc[j] = "done")
      BY <1>11, <2>4 DEF BusyForCall
    <3> QED
      BY <1>1, <1>8, <2>1, <2>2, <2>4, <3>1
  <2> QED
    BY <2>3, <2>4
<1>13. FiredRan'
  <2> SUFFICES ASSUME NEW d \in Cpus, InCall(d)', NEW j \in Fired(d)', ~Busy(j)'
               PROVE  processors_out'[j] = 1 /\ j \in ran'[d]
    BY DEF FiredRan
  <2>1. d = func /\ j \in Cpus /\ j \in Fired(func) /\ InCall(func)
    BY <1>5, <1>7 DEF Fired
  <2>2. CASE j = c
    BY <1>10, <2>1, <2>2
  <2>3. CASE j # c
    <3>1. processors_out[j] = 1 /\ j \in ran[func]
      BY <1>4, <1>11, <2>1, <2>3 DEF FiredRan
    <3> QED
      BY <1>8, <2>1, <2>3, <3>1
  <2> QED
    BY <2>2, <2>3
<1>14. RanSoFar'
  <2> SUFFICES ASSUME NEW d \in Cpus
               PROVE  /\ pc'[d] = "lock" => ran'[d] = {}
                      /\ pc'[d] = "fire" => ran'[d] \subseteq Fired(d)'
                      /\ pc'[d] = "func" => d \notin ran'[d]
                      /\ pc'[d] \in {"solo", "in", "out"} => d \in ran'[d]
                      /\ pc'[d] = "out" =>
                            \A j \in Cpus : j < call_i'[d] => processors_out'[j] = 1
    BY DEF RanSoFar
  <2>1. \A j \in Cpus : processors_out[j] = 1 => processors_out'[j] = 1
    BY <1>8
  <2>2. CASE d = func
    <3>1. pc[d] # "lock"
      BY <1>3, <2>2 DEF InCall
    <3> QED
      BY <1>1, <1>3, <1>4, <1>5, <1>8, <2>1, <2>2, <3>1 DEF RanSoFar
  <2>3. CASE d # func
    BY <1>1, <1>5, <1>8, <2>1, <2>3 DEF RanSoFar
  <2> QED
    BY <2>2, <2>3
<1>15. hpc[c] = "func" => InCall(func) /\ c \notin ran[func] /\ func \in Cpus
  BY <1>3, <1>4
<1> QED
  BY <1>6, <1>9, <1>12, <1>13, <1>14, <1>15

-----------------------------------------------------------------------------
(* Nothing is started at first. *)
LEMMA SmpInitInv == Init => SmpInv
<1> SUFFICES ASSUME Init
             PROVE  SmpInv
  OBVIOUS
<1>1. NR_CPUS \in Nat /\ NR_CPUS > 0 /\ 0 \in Cpus /\ Cpus \subseteq Nat
  BY CpusAssumption DEF Cpus
<1>2. Turn = {} /\ Counted = {}
  <2>1. \A c \in Cpus : ~(0 < c /\ c < 0)
    BY <1>1
  <2> QED
    BY <2>1 DEF Init, Turn, Counted
<1>3. BootType /\ BootOrder
  BY <1>1 DEF Init, BootType, BootOrder, Starting, Running, boot_cpu_id
<1>4. TurnsTaken
  BY <1>1, <1>2 DEF Init, TurnsTaken, Untried, Running, Calling, boot_cpu_id
<1>5. CountAgrees /\ NumbersAgree
  BY <1>1, <1>2, FS_EmptySet DEF Init, CountAgrees, NumbersAgree, boot_cpu_id
<1>6. PresentAgrees
  BY DEF Init, PresentAgrees, boot_cpu_id
<1>7. CallType
  BY <1>1 DEF Init, CallType, boot_cpu_id
<1>8. \A j \in Cpus : ~InCall(j) /\ ~Busy(j) /\ pc[j] \notin Calling
  BY DEF Init, InCall, Busy, Calling
<1>9. OneCall /\ BusyForCall /\ FiredRan /\ RanSoFar
  BY <1>8 DEF OneCall, BusyForCall, FiredRan, RanSoFar, Calling
<1> QED
  BY <1>3, <1>4, <1>5, <1>6, <1>7, <1>9 DEF SmpInv, BootInv, CallInv, Init

(* Messages, tickers and the scheduler. *)
Elsewhere(c) ==
    \/ MsgStep(c) \/ message_pass_stop(c) \/ smp_reschedule_irq(c)
    \/ smp4m_percpu_timer_interrupt(c) \/ schedule(c)
    \/ \E t \in SUBSET Cpus : smp4m_message_pass(c, t) \/ message_pass_nested(c, t)

(* They send levels 13 and 14, and disturb no cross call. *)
LEMMA ElsewhereKeeps ==
    ASSUME SmpInv, NEW c \in Cpus, Elsewhere(c)
    PROVE  UNCHANGED <<bootVars, pc, hpc, callVars>> /\ SmpInv'
<1>1. panicked = 0 /\ UNCHANGED <<bootVars, pc, hpc, callVars>>
  BY DEF Elsewhere, MsgStep, message_pass_send, message_pass_return, message_pass_stop,
         smp_reschedule_irq, smp4m_percpu_timer_interrupt, schedule, smp4m_message_pass,
         message_pass_nested, At
<1>2. CallInv /\ BootInv
  BY <1>1 DEF SmpInv
<1>3. pend \in [Cpus -> SUBSET IpiLevels] /\ "run" \in Running
  BY <1>2 DEF CallInv, CallType, Running
<1> DEFINE Level15Kept ==
            /\ panicked' \in {0, 1}
            /\ pend' \in [Cpus -> SUBSET IpiLevels]
            /\ \A j \in Cpus : CROSS_CALL \in pend'[j] <=> CROSS_CALL \in pend[j]
<1>4. Level15Kept
  <2>1. CASE UNCHANGED <<pend, panicked>>
    BY <1>1, <1>3, <2>1
  <2>2. ASSUME NEW d \in Cpus, dino1_send_ipi(d, RESCHEDULE)
        PROVE  Level15Kept
    BY <1>1, <1>3, <2>2 DEF dino1_send_ipi, MaySendIpi, RESCHEDULE, CROSS_CALL, IpiLevels
  <2>3. ASSUME NEW d, dino1_send_ipi(d, IRQ_STOP_CPU)
        PROVE  Level15Kept
    BY <1>1, <1>3, <2>3 DEF dino1_send_ipi, MaySendIpi, IRQ_STOP_CPU, IpiLevels
  <2>4. CASE smp_reschedule_irq(c)
    BY <1>1, <1>3, <2>4 DEF smp_reschedule_irq, RESCHEDULE, CROSS_CALL, IpiLevels
  <2> QED
    BY <2>1, <2>2, <2>3, <2>4
       DEF Elsewhere, MsgStep, message_pass_send, message_pass_return, message_pass_stop,
           smp4m_percpu_timer_interrupt, schedule, smp4m_message_pass, message_pass_nested
<1>5. BootInv'
  BY <1>1, <1>2, <1>3, BootKept
<1>6. CallInv'
  <2>1. UNCHANGED <<smp_processors_ready, smp_num_cpus, cpu_present_map>>
    BY <1>1 DEF bootVars
  <2> QED
    BY <1>1, <1>2, <1>4, <2>1, CallKept
<1> QED
  BY <1>1, <1>4, <1>5, <1>6 DEF SmpInv

(* The steps of the start. *)
StartStep == Boot \/ \E c \in Cpus : CallIn(c)

(* They come before the first cross call, or disturb none. *)
LEMMA StartKeeps ==
    ASSUME SmpInv, ~LateCallin, StartStep
    PROVE  SmpInv'
<1>1. panicked = 0 /\ UNCHANGED <<panicked, callVars, hpc, pend>>
  BY DEF StartStep, Boot, CallIn, smp4m_boot_cpus, boot_cpus_start, boot_cpus_wait,
         boot_cpus_finish, smp_commence, smp4m_callin, callin_go, At
<1>2. BootInv /\ CallInv
  BY <1>1 DEF SmpInv
<1>3. BootInv'
  BY <1>2, BootCpusBoot, BootCpusStart, BootCpusWait, BootCpusFinish, CommenceBoot,
     CallinBoot, CallinGoBoot DEF StartStep, Boot, CallIn
<1>4. CASE boot_cpus_finish
  BY <1>1, <1>2, <1>3, <1>4, FinishCall DEF SmpInv
<1>5. CASE ~boot_cpus_finish
  <2>1. UNCHANGED <<smp_processors_ready, smp_num_cpus>>
    BY <1>5 DEF StartStep, Boot, CallIn, smp4m_boot_cpus, boot_cpus_start, boot_cpus_wait,
                smp_commence, smp4m_callin, callin_go
  <2>2. UNCHANGED cpu_present_map \/ smp_processors_ready = 0
    BY <1>2, <1>5 DEF StartStep, Boot, CallIn, smp4m_boot_cpus, boot_cpus_start, boot_cpus_wait,
                smp_commence, smp4m_callin, callin_go, BootInv, BootOrder, At, boot_cpu_id
  <2>3. \A c \in Cpus : pc'[c] = pc[c] \/ (pc[c] \notin Calling /\ pc'[c] \notin Calling)
    <3>1. CASE boot_cpus_start
      <4>1. boot_i \in Cpus \ {0} /\ pc[boot_i] = "off" /\ 0 \in Cpus
        <5>1. boot_i \in Nat /\ 0 < boot_i /\ boot_i < linux_num_cpus /\ pc[0] = "boot"
          BY <1>2, <3>1, CpusAssumption
             DEF boot_cpus_start, At, boot_cpu_id, BootInv, BootOrder, BootType
        <5>2. boot_i \in Cpus \ {0} /\ 0 \in Cpus
          BY <1>2, <5>1, CpusAssumption DEF BootInv, BootType, Cpus
        <5> QED
          BY <1>2, <5>1, <5>2 DEF BootInv, TurnsTaken, Untried
      <4> QED
        BY <1>2, <3>1, <4>1 DEF boot_cpus_start, At, boot_cpu_id, Calling, BootInv, BootType
    <3>2. CASE smp4m_boot_cpus \/ boot_cpus_wait \/ smp_commence \/ \E c \in Cpus : CallIn(c)
      BY <1>2, <3>2 DEF smp4m_boot_cpus, boot_cpus_wait, smp_commence, CallIn, smp4m_callin,
                        callin_go, At, Goto, boot_cpu_id, Calling, BootInv, BootType
    <3> QED
      BY <1>5, <3>1, <3>2 DEF StartStep, Boot
  <2>4. pend' \in [Cpus -> SUBSET IpiLevels]
    BY <1>1, <1>2 DEF CallInv, CallType
  <2>5. CallInv'
    BY <1>1, <1>2, <2>1, <2>2, <2>3, <2>4, CallKept
  <2> QED
    BY <1>1, <1>3, <2>5 DEF SmpInv
<1> QED
  BY <1>4, <1>5

(* The steps of cross calls. *)
LEMMA CallStepKeeps ==
    ASSUME SmpInv, NEW c \in Cpus, smp4m_cross_call(c) \/ CallStep(c) \/ CallIrq(c)
    PROVE  SmpInv'
<1>1. panicked = 0 /\ UNCHANGED bootVars
  BY DEF smp4m_cross_call, CallStep, CallIrq, cross_call_lock_it, cross_call_fire,
         cross_call_func, cross_call_solo, cross_call_wait_in, cross_call_wait_out,
         smp4m_cross_call_irq, cross_call_irq_func, cross_call_irq_done, At
<1>2. BootInv /\ CallInv
  BY <1>1 DEF SmpInv
<1>3. \E where \in Running :
          UNCHANGED pc \/ (pc[c] \in Running /\ pc' = [pc EXCEPT ![c] = where])
  <2>1. CASE CallIrq(c)
    BY <2>1 DEF CallIrq, smp4m_cross_call_irq, cross_call_irq_func, cross_call_irq_done, Running
  <2>2. CASE smp4m_cross_call(c) \/ CallStep(c)
    BY <2>2 DEF smp4m_cross_call, CallStep, cross_call_lock_it, cross_call_fire,
         cross_call_func, cross_call_solo, cross_call_wait_in, cross_call_wait_out,
         At, Goto, Running, Calling
  <2> QED
    BY <2>1, <2>2
<1>4. BootInv'
  BY <1>1, <1>2, <1>3, BootKept
<1>5. panicked' \in {0, 1}
  BY <1>1 DEF smp4m_cross_call, CallStep, CallIrq, cross_call_lock_it, cross_call_fire,
         cross_call_func, cross_call_solo, cross_call_wait_in, cross_call_wait_out,
         smp4m_cross_call_irq, cross_call_irq_func, cross_call_irq_done, dino1_send_ipi
<1>6. panicked' = 0 => CallInv'
  BY <1>2, CallBegins, LockCall, FireCall, FuncCall, SoloCall, WaitInCall, WaitOutCall, IrqCall
     DEF CallStep
<1> QED
  BY <1>4, <1>5, <1>6 DEF SmpInv

(* The invariant is inductive. *)
LEMMA SmpStep == SmpInv /\ ~LateCallin /\ [Next]_vars => SmpInv'
<1> SUFFICES ASSUME SmpInv, ~LateCallin, [Next]_vars
             PROVE  SmpInv'
  OBVIOUS
<1>1. CASE UNCHANGED vars
  BY <1>1 DEF vars, bootVars, callVars, SmpInv, BootInv, BootType, BootOrder, TurnsTaken, Turn,
     Untried, CountAgrees, Counted, NumbersAgree, PresentAgrees, CallInv, CallType, OneCall,
     InCall, BusyForCall, Busy, Fired, Targets, FiredRan, RanSoFar
<1>2. CASE Next
  BY <1>2, StartKeeps, CallStepKeeps, ElsewhereKeeps DEF Next, StartStep, Elsewhere
<1> QED
  BY <1>1, <1>2

(* Who runs the kernel was counted: smp4m_boot_cpus has it present, its    *)
(* number is below smp_num_cpus although processors before it may have     *)
(* failed (current_set lets only those go on that came after no failure),  *)
(* and its trap table was not freed.                                       *)
THEOREM CountedRun == ~LateCallin => (Spec => []RunningAreCounted)
<1> SUFFICES ASSUME ~LateCallin
             PROVE  Spec => []RunningAreCounted
  OBVIOUS
<1>1. BootInv => RunningAreCounted
  <2> SUFFICES ASSUME BootInv, smp_processors_ready = 1
               PROVE  /\ up \subseteq cpu_present_map \cap 0 .. smp_num_cpus - 1
                      /\ up \cap freed = {}
                      /\ Cardinality(cpu_present_map) = smp_num_cpus
                      /\ \A c \in Cpus \ {0} : cpu_callin_map[c] = 1 => c \in cpu_present_map
    BY DEF RunningAreCounted, boot_cpu_id
  <2> USE DEF BootInv
  <2>1. /\ NR_CPUS \in Nat /\ NR_CPUS > 0 /\ Cpus \subseteq Nat /\ 0 \in Cpus
        /\ linux_num_cpus \in 1 .. NR_CPUS /\ smp_num_cpus \in 1 .. NR_CPUS
    BY CpusAssumption DEF BootType, Cpus
  <2>2. boot_i = linux_num_cpus /\ pc[0] # "wait"
    BY DEF BootOrder
  <2>3. /\ IsFiniteSet(Counted) /\ Cardinality(Counted) \in Nat
        /\ cpucount = Cardinality(Counted) /\ smp_num_cpus = cpucount + 1
        /\ freed = Unneeded(cpu_present_map)
    BY <2>2, CountedFinite DEF CountAgrees, PresentAgrees
  <2>4. cpu_present_map = {0} \cup Counted
    <3>1. \A c \in Cpus : ~(boot_i <= c /\ c < linux_num_cpus)
      BY <2>1, <2>2
    <3>2. boot_i > 0
      BY <2>1, <2>2
    <3> QED
      BY <3>1, <3>2 DEF PresentAgrees
  <2>5. \A c \in Cpus \ {0} : cpu_callin_map[c] = 1 => c \in Counted
    <3> SUFFICES ASSUME NEW c \in Cpus \ {0}, cpu_callin_map[c] = 1
                 PROVE  c \in Counted
      OBVIOUS
    <3>1. c \notin Untried
      BY DEF TurnsTaken
    <3>2. c < boot_i /\ 0 < c
      BY <2>1, <2>2, <3>1 DEF Untried
    <3> QED
      BY <3>2 DEF Counted, Turn
  <2>6. ASSUME NEW c \in up
        PROVE  c \in cpu_present_map /\ c \in 0 .. smp_num_cpus - 1
    <3>1. CASE c = 0
      BY <2>1, <2>4, <3>1
    <3>2. CASE c # 0
      <4>1. c \in Cpus /\ pc[c] \in Running /\ current_set[c] = c
        BY <2>6, <3>2 DEF BootType, TurnsTaken, PresentAgrees
      <4>2. cpu_callin_map[c] = 1
        BY <3>2, <4>1 DEF TurnsTaken, Running, Calling
      <4>3. c \in Counted
        BY <2>5, <3>2, <4>1, <4>2
      <4>4. c <= Cardinality(Counted) /\ c \in Nat
        BY <2>1, <4>1, <4>3 DEF NumbersAgree
      <4> QED
        BY <2>3, <2>4, <4>3, <4>4
    <3> QED
      BY <3>1, <3>2
  <2>7. up \cap freed = {}
    BY <2>3, <2>6 DEF Unneeded
  <2>8. Cardinality(cpu_present_map) = smp_num_cpus
    <3>1. 0 \notin Counted /\ cpu_present_map = Counted \cup {0}
      BY <2>1, <2>4 DEF Counted, Turn
    <3> QED
      BY <2>3, <3>1, FS_AddElement
  <2> QED
    BY <2>4, <2>5, <2>6, <2>7, <2>8
<1>2. SmpInv /\ [Next]_vars => SmpInv'
  BY SmpStep
<1>3. SmpInv => RunningAreCounted
  BY <1>1 DEF SmpInv
<1> QED
  BY <1>2, <1>3, SmpInitInv, PTL DEF Spec

(* smp4m_cross_call does what its callers rely on, for any number of       *)
(* processors and callers: the function has run exactly once on every      *)
(* running processor when the call returns, and no handler runs the        *)
(* function of a call that is over.                                        *)
THEOREM CrossCallImplemented == ~LateCallin => (Spec => CrossCallSpec)
<1> SUFFICES ASSUME ~LateCallin
             PROVE  Spec => CrossCallSpec
  OBVIOUS
<1> DEFINE calling == {c \in Cpus : pc[c] \in {"lock", "fire", "func", "solo", "in", "out"}}
<1>1. Init => CC!Init
  BY CpusAssumption DEF Init, CC!Init, Cpus, boot_cpu_id
<1>2. SmpInv /\ RunningAreCounted /\ [Next]_vars => [CC!Next]_(CC!vars)
  <2> SUFFICES ASSUME SmpInv, RunningAreCounted, [Next]_vars
               PROVE  CC!Next \/ UNCHANGED <<up, calling, ran>>
    BY DEF CC!vars
  <2>i. BootInv
    BY DEF SmpInv
  <2>t. /\ pc \in [Cpus -> Starting \cup {"boot", "wait"} \cup Running] /\ 0 \in Cpus
        /\ \A c \in Cpus : pc[c] \in Running => c \in up
    BY <2>i, CpusAssumption DEF BootInv, BootType, TurnsTaken, Cpus
  <2>a. ASSUME NEW c \in Cpus, NEW w, pc' = [pc EXCEPT ![c] = w]
        PROVE  /\ w \in Calling => calling' = calling \cup {c}
               /\ w \notin Calling => calling' = calling \ {c}
    BY <2>a, <2>t DEF Calling
  <2>1. CASE UNCHANGED vars
    BY <2>1 DEF vars, bootVars, callVars
  <2>2. CASE Boot
    <3>1. UNCHANGED <<up, ran>>
      BY <2>2 DEF Boot, smp4m_boot_cpus, boot_cpus_start, boot_cpus_wait, boot_cpus_finish,
                  smp_commence, callVars
    <3>2. UNCHANGED calling
      <4>1. CASE boot_cpus_start
        <5>1. boot_i \in Nat /\ 0 < boot_i /\ boot_i < linux_num_cpus /\ pc[0] = "boot"
          BY <2>i, <4>1, CpusAssumption
             DEF boot_cpus_start, At, boot_cpu_id, BootInv, BootOrder, BootType
        <5>2. boot_i \in Cpus \ {0}
          BY <2>i, <5>1, CpusAssumption DEF BootInv, BootType, Cpus
        <5>3. pc[boot_i] = "off"
          BY <2>i, <5>1, <5>2 DEF BootInv, TurnsTaken, Untried
        <5>4. \A c \in Cpus : pc'[c] = pc[c] \/ (pc[c] \notin Calling /\ pc'[c] \notin Calling)
          BY <2>t, <4>1, <5>1, <5>2, <5>3 DEF boot_cpus_start, boot_cpu_id, Calling
        <5> QED
          BY <5>4 DEF Calling
      <4>2. CASE smp4m_boot_cpus \/ boot_cpus_wait \/ boot_cpus_finish \/ smp_commence
        <5>1. \A c \in Cpus : pc'[c] = pc[c] \/ (pc[c] \notin Calling /\ pc'[c] \notin Calling)
          BY <2>t, <4>2 DEF smp4m_boot_cpus, boot_cpus_wait, boot_cpus_finish, smp_commence, At,
                            Goto, boot_cpu_id, Calling
        <5> QED
          BY <5>1 DEF Calling
      <4> QED
        BY <2>2, <4>1, <4>2 DEF Boot
    <3> QED
      BY <3>1, <3>2
  <2>3. ASSUME NEW c \in Cpus, CallIn(c)
        PROVE  CC!Next \/ UNCHANGED <<up, calling, ran>>
    <3>1. UNCHANGED calling
      <4>1. \E w \in {"calledin", "run"} : pc' = [pc EXCEPT ![c] = w]
        BY <2>3 DEF CallIn, smp4m_callin, callin_go, Goto
      <4>2. c \notin calling
        BY <2>3 DEF CallIn, smp4m_callin, callin_go, At
      <4> QED
        BY <2>a, <4>1, <4>2 DEF Calling
    <3>2. CASE smp4m_callin(c)
      BY <3>1, <3>2 DEF smp4m_callin, callVars
    <3>3. CASE callin_go(c)
      <4>1. c \notin up
        BY <2>i, <3>3, CallinGoBoot
      <4>2. CC!Join(c)
        BY <3>1, <3>3, <4>1 DEF callin_go, callVars, CC!Join
      <4> QED
        BY <4>2 DEF CC!Next
    <3> QED
      BY <2>3, <3>2, <3>3 DEF CallIn
  <2>4. ASSUME NEW c \in Cpus, smp4m_cross_call(c)
        PROVE  CC!Call(c)
    <3>1. /\ pc[c] = "run" /\ ran' = [ran EXCEPT ![c] = {}] /\ UNCHANGED up
          /\ pc' = [pc EXCEPT ![c] = IF smp_processors_ready = 1 THEN "lock" ELSE "func"]
      BY <2>4 DEF smp4m_cross_call, At, Goto, bootVars
    <3>2. c \in up /\ c \notin calling
      BY <2>t, <3>1 DEF Running
    <3>3. calling' = calling \cup {c}
      BY <2>a, <3>1 DEF Calling
    <3> QED
      BY <3>1, <3>2, <3>3 DEF CC!Call
  <2>5. ASSUME NEW c \in Cpus, CallStep(c)
        PROVE  CC!Next \/ UNCHANGED <<up, calling, ran>>
    <3>1. panicked = 0 /\ UNCHANGED up /\ c \in calling
      BY <2>5 DEF CallStep, cross_call_lock_it, cross_call_fire, cross_call_func, cross_call_solo,
                  cross_call_wait_in, cross_call_wait_out, At, bootVars
    <3>2. CallInv
      BY <3>1 DEF SmpInv
    <3>3. CASE cross_call_lock_it(c) \/ cross_call_fire(c) \/ cross_call_wait_in(c)
      <4>1. /\ UNCHANGED ran
            /\ \E w \in {"fire", "func", "in", "out"} : pc' = [pc EXCEPT ![c] = w]
        BY <3>3 DEF cross_call_lock_it, cross_call_fire, cross_call_wait_in, Goto
      <4> QED
        BY <2>a, <3>1, <4>1 DEF Calling
    <3>4. CASE cross_call_func(c)
      <4>1. /\ pc[c] = "func" /\ ran' = [ran EXCEPT ![c] = @ \cup {c}]
            /\ \E w \in {"in", "solo"} : pc' = [pc EXCEPT ![c] = w]
        BY <3>4 DEF cross_call_func, At, Goto
      <4>2. calling' = calling /\ c \notin ran[c]
        BY <2>a, <3>1, <3>2, <4>1 DEF Calling, CallInv, RanSoFar
      <4>3. CC!Run(c, c)
        BY <3>1, <4>1, <4>2 DEF CC!Run
      <4> QED
        BY <4>3 DEF CC!Next
    <3>5. CASE cross_call_solo(c)
      <4>1. pc[c] = "solo" /\ UNCHANGED ran /\ pc' = [pc EXCEPT ![c] = "run"]
        BY <3>5 DEF cross_call_solo, At, Goto, callVars
      <4>2. smp_processors_ready = 0
        BY <2>i, <3>2, <4>1 DEF CallInv, OneCall, BootInv, BootType
      <4>3. up = {0} /\ c = 0
        BY <2>i, <4>1, <4>2, AloneAtFirst DEF Running, Calling
      <4>4. c \in ran[c]
        BY <3>2, <4>1 DEF CallInv, RanSoFar
      <4>5. up \subseteq ran[c] /\ calling' = calling \ {c}
        <5>1. calling' = calling \ {c}
          BY <2>a, <4>1 DEF Calling
        <5>2. up \subseteq ran[c]
          BY <4>3, <4>4
        <5> QED
          BY <5>1, <5>2
      <4>6. CC!Return(c)
        BY <3>1, <4>1, <4>5 DEF CC!Return
      <4> QED
        BY <4>6 DEF CC!Next
    <3>6. CASE cross_call_wait_out(c)
      <4>1. pc[c] = "out" /\ UNCHANGED ran /\ (\E w \in {"run", "out"} : pc' = [pc EXCEPT ![c] = w])
        BY <3>6 DEF cross_call_wait_out, At, Goto
      <4>2. CASE pc' = [pc EXCEPT ![c] = "out"]
        BY <2>a, <3>1, <4>1, <4>2 DEF Calling
      <4>3. CASE pc' = [pc EXCEPT ![c] = "run"]
        <5>1. pc'[c] = "run"
          BY <2>t, <4>3
        <5>2. \A j \in cpu_present_map : j < smp_num_cpus => j \in ran[c]
          BY <2>i, <3>2, <3>6, <5>1, WaitOutCall
        <5>3. smp_processors_ready = 1 /\ smp_num_cpus \in Nat
          BY <2>i, <3>2, <4>1, CpusAssumption DEF CallInv, OneCall, BootInv, BootType
        <5>4. \A j \in up : j \in cpu_present_map /\ j < smp_num_cpus
          BY <5>3 DEF RunningAreCounted
        <5>5. up \subseteq ran[c]
          BY <5>2, <5>4
        <5>6. calling' = calling \ {c}
          <6>1. "run" \notin Calling
            BY DEF Calling
          <6> QED
            BY <2>a, <4>3, <6>1
        <5>7. CC!Return(c)
          BY <3>1, <4>1, <5>5, <5>6 DEF CC!Return
        <5> QED
          BY <5>7 DEF CC!Next
      <4> QED
        BY <4>1, <4>2, <4>3
    <3> QED
      BY <2>5, <3>3, <3>4, <3>5, <3>6 DEF CallStep
  <2>6. ASSUME NEW c \in Cpus, CallIrq(c)
        PROVE  CC!Next \/ UNCHANGED <<up, calling, ran>>
    <3>1. panicked = 0 /\ UNCHANGED <<up, pc>>
      BY <2>6 DEF CallIrq, smp4m_cross_call_irq, cross_call_irq_func, cross_call_irq_done, bootVars
    <3>2. CallInv
      BY <3>1 DEF SmpInv
    <3>3. CASE cross_call_irq_func(c)
      <4>1. InCall(func) /\ c \notin ran[func] /\ func \in Cpus
        BY <2>i, <2>6, <3>2, <3>3, IrqCall DEF cross_call_irq_func
      <4>2. func \in calling
        BY <4>1 DEF InCall
      <4>3. CC!Run(func, c)
        BY <3>1, <3>3, <4>1, <4>2 DEF CC!Run, cross_call_irq_func
      <4> QED
        BY <4>1, <4>3 DEF CC!Next
    <3>4. CASE ~cross_call_irq_func(c)
      BY <2>6, <3>1, <3>4 DEF CallIrq, smp4m_cross_call_irq, cross_call_irq_done
    <3> QED
      BY <3>3, <3>4
  <2>7. ASSUME NEW c \in Cpus, Elsewhere(c)
        PROVE  UNCHANGED <<up, calling, ran>>
    BY <2>7, ElsewhereKeeps DEF bootVars, callVars
  <2> QED
    BY <2>1, <2>2, <2>3, <2>4, <2>5, <2>6, <2>7 DEF Next, Elsewhere, CC!Next
<1>3. SmpInv /\ [Next]_vars => SmpInv'
  BY SmpStep
<1>4. Spec => []RunningAreCounted
  BY CountedRun
<1> QED
  BY <1>1, <1>2, <1>3, <1>4, SmpInitInv, PTL DEF Spec, CrossCallSpec, CC!Spec
=============================================================================
