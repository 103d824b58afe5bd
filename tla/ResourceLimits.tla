--------------------------- MODULE ResourceLimits ---------------------------
(***************************************************************************)
(* The limits of a job's cgroup (core/linux/resource/cgroup.go).           *)
(*                                                                         *)
(* "files" maps each control file that was written to the number in it;    *)
(* io.max is split by what the accepted format limits.  "present" are the  *)
(* files the kernel shows in the directory, "accepted" those whose write   *)
(* it accepts; both are the kernel's choice.                               *)
(***************************************************************************)
EXTENDS Overlays, Integers, FiniteSets

\* The formats of io.max that limit bytes: reads or writes of device 8:0, and
\* reads of the device called "max".
IOBytes == {"io.rbps", "io.wbps", "io.max.rbps"}

\* cgroup.controllers and the files a controller brings into a directory.
ControlFiles(controller) ==
    CASE controller = "cpu" -> {"cpu.max", "cpu.weight"}
      [] controller = "memory" -> {"memory.max", "memory.high"}
      [] controller = "io" -> IOBytes \cup {"io.iops"}
      [] OTHER -> {}

AllControlFiles == UNION {ControlFiles(c) : c \in {"cpu", "memory", "io"}}

Period == 100000
Mega   == 1024 * 1024

\* enableControllersFromConfig: the configured controllers that are
\* available, by exact name.  The write fails while a process, the worker
\* itself, is in the base directory ("no internal processes").
EnabledControllers(configured, available, workerMoved) ==
    IF workerMoved THEN configured \cap available ELSE {}

\* Mutant: the quota is taken for the percentage of a period of 10000.
QuotaTenth(percent) == (percent * 10000) \div 100

\* A percentage of one CPU as microseconds per period.
Quota(percent) == (percent * Period) \div 100

MaxWeight == 10000

\* The fallback: the percentage as a weight, clipped to 1 .. MaxWeight.
Weight(percent) ==
    CASE percent < 1 -> 1
      [] percent > MaxWeight -> MaxWeight
      [] percent \in 1 .. MaxWeight -> percent

MemoryBytes(mb) == mb * Mega

\* int64(float64(bytes) * 0.9): nine tenths, rounded down.
SoftLimit(bytes) == bytes - (bytes + 9) \div 10

\* Mutant: a refused write counts.
SetCPULimitUnchecked(files, present, accepted, percent) ==
    IF "cpu.max" \in present THEN Overlay(Entry("cpu.max", Quota(percent)), files) ELSE files

SetCPULimit(files, present, accepted, percent) ==
    CASE "cpu.max" \in present /\ "cpu.max" \in accepted ->
            Overlay(Entry("cpu.max", Quota(percent)), files)
      [] "cpu.max" \notin present /\ "cpu.weight" \in present \cap accepted ->
            Overlay(Entry("cpu.weight", Weight(percent)), files)
      [] OTHER -> files

SetMemoryLimit(files, present, accepted, mb) ==
    LET value == [f \in {"memory.max", "memory.high"} |->
                     IF f = "memory.max" THEN MemoryBytes(mb)
                     ELSE SoftLimit(MemoryBytes(mb))]
    IN  Overlay([f \in {"memory.max", "memory.high"} \cap present \cap accepted |-> value[f]],
                files)

\* SetIOLimit: four formats, of which the first that is accepted stays; the last
\* is 1000 operations per second, whatever the limit is.
SetIOLimit(files, present, accepted, bps) ==
    LET ok == present \cap accepted
    IN  CASE "io.rbps" \in ok -> Overlay(Entry("io.rbps", bps), files)
          [] "io.rbps" \notin ok /\ "io.wbps" \in ok -> Overlay(Entry("io.wbps", bps), files)
          [] {"io.rbps", "io.wbps"} \cap ok = {} /\ "io.max.rbps" \in ok ->
                Overlay(Entry("io.max.rbps", bps), files)
          [] IOBytes \cap ok = {} /\ "io.iops" \in ok ->
                Overlay(Entry("io.iops", 1000), files)
          [] OTHER -> files

\* Create on a fresh directory: only positive limits are set, and a limit that
\* cannot be set is only logged.
Create(present, accepted, limits) ==
    LET cpu == IF limits.cpu > 0
               THEN SetCPULimit(<<>>, present, accepted, limits.cpu) ELSE <<>>
        mem == IF limits.mem > 0
               THEN SetMemoryLimit(cpu, present, accepted, limits.mem) ELSE cpu
    IN  IF limits.io > 0 THEN SetIOLimit(mem, present, accepted, limits.io) ELSE mem
=============================================================================
