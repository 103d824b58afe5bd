-------------------------- MODULE RunRequestProofs --------------------------
(***************************************************************************)
(* Proofs about RunRequest: from the command line, the configuration files *)
(* and the environment to the limits in the cgroup and the command that is *)
(* executed.                                                               *)
(*                                                                         *)
(* Inv follows the request, ChildInv what the child knows of it, and       *)
(* IsolationInv its mounts and its output; each is inductive relative to   *)
(* the ones before it.                                                     *)
(***************************************************************************)
EXTENDS RunRequest, WellFoundedInduction, TLAPS

-----------------------------------------------------------------------------
(* Least and greatest elements; numbers in the cgroup's files *)

\* A set of numbers that is not empty has a least one, and Min is it.
LEMMA LeastOne ==
    ASSUME NEW S \in SUBSET Nat, S # {}
    PROVE  Min(S) \in S /\ \A x \in S : Min(S) <= x
<1> DEFINE R == OpToRel(<, Nat)
<1>1. IsWellFoundedOn(R, Nat)
  BY NatLessThanWellFounded
<1>2. \E x \in S : \A y \in S : <<y, x>> \notin R
  <2> HIDE DEF R
  <2> QED
    BY <1>1, WFMin
<1>3. PICK x \in S : \A y \in S : <<y, x>> \notin R
  BY <1>2
<1>4. \A y \in S : x <= y
  <2>1. \A y \in Nat : y < x => <<y, x>> \in R
    BY DEF OpToRel
  <2>2. \A y \in S : ~(y < x)
    BY <1>3, <2>1, Zenon
  <2> QED
    BY <2>2
<1> QED
  BY <1>4 DEF Min

\* A bounded one has a greatest one, and Max is it.
LEMMA GreatestOne ==
    ASSUME NEW n \in Nat, NEW S \in SUBSET (1 .. n), S # {}
    PROVE  Max(S) \in S /\ \A x \in S : x <= Max(S)
<1> DEFINE T == {n - x : x \in S}
<1>1. T \in SUBSET Nat /\ T # {}
  <2>1. \A x \in S : n - x \in Nat
    OBVIOUS
  <2> QED
    BY <2>1
<1>2. Min(T) \in T /\ \A x \in T : Min(T) <= x
  BY <1>1, LeastOne
<1>3. PICK x \in S : Min(T) = n - x
  BY <1>2
<1>4. \A y \in S : x >= y
  <2> TAKE y \in S
  <2>1. n - x <= n - y
    BY <1>2, <1>3
  <2> QED
    BY <2>1
<1> QED
  BY <1>4 DEF Max

\* A controller brings files the model knows, or none.
LEMMA ControlFilesKnown ==
    ASSUME NEW c
    PROVE  ControlFiles(c) \subseteq AllControlFiles
<1>1. c \notin {"cpu", "memory", "io"} => ControlFiles(c) = {}
  BY DEF ControlFiles
<1> QED
  BY <1>1 DEF AllControlFiles

\* The division in SetCPULimit loses nothing: a percentage of the period is whole.
LEMMA QuotaExact ==
    ASSUME NEW p \in Int
    PROVE  Quota(p) * 100 = p * Period
BY DEF Quota, Period

\* The megabytes can be read off memory.max, and memory.high is just below it.
LEMMA MemoryGap ==
    ASSUME NEW mb \in Int, mb > 0
    PROVE  /\ MemoryBytes(mb) \div Mega = mb
           /\ MemoryBytes(mb) - SoftLimit(MemoryBytes(mb)) > 0
           /\ MemoryBytes(mb) - SoftLimit(MemoryBytes(mb)) <= MemoryBytes(mb) \div 10 + 1
BY DEF MemoryBytes, SoftLimit, Mega

\* The fallback writes a weight the kernel knows, whatever the percentage.
LEMMA WeightClipped ==
    ASSUME NEW p \in Int
    PROVE  /\ Weight(p) \in 1 .. MaxWeight
           /\ p > 0 /\ p <= MaxWeight => Weight(p) = p
<1>1. MaxWeight \in Int /\ 1 <= MaxWeight
  BY DEF MaxWeight
<1>2. CASE p < 1
  BY <1>1, <1>2 DEF Weight
<1>3. CASE p > MaxWeight
  BY <1>1, <1>3 DEF Weight
<1>4. CASE p \in 1 .. MaxWeight
  BY <1>4 DEF Weight
<1> QED
  BY <1>1, <1>2, <1>3, <1>4

\* ParseLevel gives a level or says that it knows none.
LEMMA ParsedLevel ==
    ASSUME NEW text
    PROVE  ParseLevel(text) \in LogLevels \cup {UnknownLevel}
BY DEF ParseLevel, LogLevels, UnknownLevel, DEBUG, INFO, WARN, ERROR

-----------------------------------------------------------------------------
(* Resolution *)

\* What ResolveCommand finds exists, and an absolute command resolves to itself.
LEMMA ResolveFinds ==
    ASSUME NEW command, NEW common, DOMAIN common \subseteq Nat,
           Resolve(command, common) # NotFound
    PROVE  /\ Resolve(command, common) \in fs
           /\ IsAbs(command) => Resolve(command, common) = command
<1> DEFINE there == {i \in DOMAIN common : common[i] \in fs}
<1>1. LookPath(command) # NotFound => LookPath(command) \in fs
  BY DEF LookPath, NotFound
<1>2. there # {} => common[Min(there)] \in fs
  BY LeastOne
<1>3. CASE IsAbs(command)
  <2>1. Resolve(command, common) = IF command \in fs THEN command ELSE NotFound
    BY <1>3, ExecutablesAssumption DEF Resolve, Unresolved, IsAbs
  <2> QED
    BY <2>1
<1>4. CASE ~IsAbs(command) /\ command \in Unresolved /\ LookPath(command) # NotFound
  <2>1. Resolve(command, common) = LookPath(command)
    BY <1>4 DEF Resolve
  <2> QED
    BY <1>1, <1>4, <2>1
<1>5. CASE /\ ~IsAbs(command) /\ command \in Unresolved /\ LookPath(command) = NotFound
           /\ there # {}
  <2>1. Resolve(command, common) = common[Min(there)]
    BY <1>5 DEF Resolve
  <2> QED
    BY <1>2, <1>5, <2>1
<1>6. CASE ~IsAbs(command) /\ ~(command \in Unresolved /\ (LookPath(command) # NotFound \/ there # {}))
  BY <1>6 DEF Resolve
<1> QED
  BY <1>3, <1>4, <1>5, <1>6

-----------------------------------------------------------------------------
(* The configuration *)

\* The value LoadConfig gives a field: the environment's, if it parses.
LEMMA LoadedField ==
    ASSUME NEW list, NEW e, LoadConfig(list, e) # NoConfig, NEW f \in Fields
    PROVE  LET c == LoadConfig(list, e)
               d == LoadFromFile(DefaultConfig, list)
           IN  /\ DOMAIN c = Fields
               /\ c[f] = IF f \in DOMAIN e /\ (f \in NumFields => e[f] # Junk) THEN e[f] ELSE d[f]
BY DEF LoadConfig, LoadFromEnv

\* A mode in the environment decides.
LEMMA ModeFromEnv ==
    ASSUME NEW list, NEW e, LoadConfig(list, e) # NoConfig, "Mode" \in DOMAIN e
    PROVE  LoadConfig(list, e).Mode = e.Mode
<1>1. "Mode" \in Fields /\ "Mode" \notin NumFields
  BY DEF Fields, TextFields, NumFields
<1> QED
  BY <1>1, LoadedField

\* What the file leaves in a numeric field is a number.
LEMMA NumberFromFile ==
    ASSUME NEW list \in FileLists, NEW f \in {"CPULimit", "MemoryLimit", "IOLimit"},
           LoadFromFile(DefaultConfig, list) # NoConfig
    PROVE  LoadFromFile(DefaultConfig, list)[f] \in Int
<1> DEFINE present_ == {i \in DOMAIN list : list[i].state # "absent"}
           first    == list[Min(present_)]
<1>1. f \in NumFields /\ f \in DOMAIN DefaultConfig /\ DefaultConfig[f] \in Int
  BY DEF NumFields, DefaultConfig
<1>2. CASE present_ = {}
  <2>1. LoadFromFile(DefaultConfig, list) = DefaultConfig
    BY <1>2 DEF LoadFromFile
  <2> QED
    BY <1>1, <2>1
<1>3. CASE present_ # {} /\ first.state = "broken"
  BY <1>3 DEF LoadFromFile
<1>4. CASE present_ # {} /\ first.state # "broken"
  <2>1. LoadFromFile(DefaultConfig, list) = Overlay(first.sets, DefaultConfig)
    BY <1>4 DEF LoadFromFile
  <2>2. Min(present_) \in DOMAIN list
    BY <1>4, LeastOne, NumbersAssumption
  <2>3. f \in DOMAIN first.sets => first.sets[f] \in Int
    BY <1>1, <2>2, NumbersAssumption
  <2> QED
    BY <1>1, <2>1, <2>3 DEF Overlay
<1> QED
  BY <1>2, <1>3, <1>4

\* The configured limits are numbers.
LEMMA NumberLoaded ==
    ASSUME NEW list \in FileLists, NEW b \in BaseEnvs, LoadConfig(list, b.conf) # NoConfig,
           NEW f \in {"CPULimit", "MemoryLimit", "IOLimit"}
    PROVE  LoadConfig(list, b.conf)[f] \in Int
<1>1. f \in Fields /\ f \in NumFields
  BY DEF Fields, NumFields
<1>2. f \in DOMAIN b.conf /\ b.conf[f] # Junk => b.conf[f] \in Int
  BY <1>1, NumbersAssumption
<1>3. LoadFromFile(DefaultConfig, list) # NoConfig
  BY DEF LoadConfig
<1> QED
  BY <1>1, <1>2, <1>3, LoadedField, NumberFromFile

\* The child's logger has a level, and what initializeLogging prints is plain.
LEMMA LevelLoaded ==
    ASSUME NEW c, NEW logging \in InitializeLogging(c)
    PROVE  logging.level \in LogLevels /\ logging.lines \subseteq {Plain}
<1>1. INFO \in LogLevels
  BY DEF LogLevels, DEBUG, INFO, ERROR
<1> QED
  BY <1>1, ParsedLevel DEF InitializeLogging

\* A level that passed Validate is known, so it prints nothing unless the log is
\* to go into a file.
LEMMA QuietLogging ==
    ASSUME NEW list, NEW e, LoadConfig(list, e) # NoConfig,
           NEW logging \in InitializeLogging(LoadConfig(list, e)), logging.lines # {}
    PROVE  LogsToFile(LoadConfig(list, e))
<1> DEFINE c == LoadConfig(list, e)
<1>0. Validate(c)
  BY DEF LoadConfig
<1> HIDE DEF c
<1>1. c.Level \in {"DEBUG", "INFO", "WARN", "ERROR", "debug", "info", "warn", "error"}
  BY <1>0 DEF Validate
<1>2. ParseLevel(c.Level) # UnknownLevel
  BY <1>1 DEF ParseLevel, UnknownLevel, DEBUG, INFO, WARN, ERROR
<1>3. logging \in InitializeLogging(c)
  BY DEF c
<1>4. ~LogsToFile(c) => logging.lines = {}
  BY <1>2, <1>3 DEF InitializeLogging
<1> QED
  BY <1>4 DEF c

-----------------------------------------------------------------------------
(* The cgroup's files *)

\* What SetCPULimit writes into a directory without other files.
LEMMA CPUWritten ==
    ASSUME NEW p, NEW a, NEW percent \in Int
    PROVE  LET w == SetCPULimit(<<>>, p, a, percent)
           IN  /\ DOMAIN w \subseteq {"cpu.max", "cpu.weight"} \cap p \cap a
               /\ "cpu.max" \in DOMAIN w => w["cpu.max"] = Quota(percent)
               /\ "cpu.weight" \in DOMAIN w => w["cpu.weight"] = Weight(percent)
               /\ "cpu.max" \in p \cap a => "cpu.max" \in DOMAIN w
<1> DEFINE w == SetCPULimit(<<>>, p, a, percent)
<1>0. DOMAIN <<>> = {}
  OBVIOUS
<1>1. CASE "cpu.max" \in p \cap a
  <2>1. w = Overlay(Entry("cpu.max", Quota(percent)), <<>>)
    BY <1>1 DEF SetCPULimit
  <2> QED
    BY <1>0, <1>1, <2>1 DEF Overlay, Entry
<1>2. CASE "cpu.max" \notin p /\ "cpu.weight" \in p \cap a
  <2>1. w = Overlay(Entry("cpu.weight", Weight(percent)), <<>>)
    BY <1>2 DEF SetCPULimit
  <2> QED
    BY <1>0, <1>2, <2>1 DEF Overlay, Entry
<1>3. CASE "cpu.max" \notin p \cap a /\ ~("cpu.max" \notin p /\ "cpu.weight" \in p \cap a)
  <2>1. w = <<>>
    BY <1>3 DEF SetCPULimit
  <2> QED
    BY <1>0, <1>3, <2>1
<1> QED
  BY <1>1, <1>2, <1>3

\* What SetMemoryLimit adds.
LEMMA MemoryWritten ==
    ASSUME NEW files0, NEW p, NEW a, NEW mb
    PROVE  LET w == SetMemoryLimit(files0, p, a, mb)
           IN  /\ DOMAIN w \subseteq DOMAIN files0 \cup ({"memory.max", "memory.high"} \cap p \cap a)
               /\ DOMAIN files0 \cup ({"memory.max", "memory.high"} \cap p \cap a) \subseteq DOMAIN w
               /\ \A x \in DOMAIN files0 \ {"memory.max", "memory.high"} : w[x] = files0[x]
               /\ "memory.max" \in p \cap a => w["memory.max"] = MemoryBytes(mb)
               /\ "memory.high" \in p \cap a => w["memory.high"] = SoftLimit(MemoryBytes(mb))
<1> DEFINE m     == {"memory.max", "memory.high"}
           value == [f \in m |-> IF f = "memory.max" THEN MemoryBytes(mb)
                                 ELSE SoftLimit(MemoryBytes(mb))]
           new   == [f \in m \cap p \cap a |-> value[f]]
           w     == SetMemoryLimit(files0, p, a, mb)
<1>1. w = Overlay(new, files0)
  BY DEF SetMemoryLimit
<1>2. /\ DOMAIN new = m \cap p \cap a
      /\ "memory.max" \in p \cap a => new["memory.max"] = MemoryBytes(mb)
      /\ "memory.high" \in p \cap a => new["memory.high"] = SoftLimit(MemoryBytes(mb))
  OBVIOUS
<1> HIDE DEF new, w
<1>3. /\ DOMAIN w = DOMAIN new \cup DOMAIN files0
      /\ \A x \in DOMAIN new : w[x] = new[x]
      /\ \A x \in DOMAIN files0 \ DOMAIN new : w[x] = files0[x]
  BY <1>1 DEF Overlay
<1> QED
  BY <1>2, <1>3 DEF w

\* What SetIOLimit adds.
LEMMA IOWritten ==
    ASSUME NEW files0, NEW p, NEW a, NEW bps
    PROVE  LET w == SetIOLimit(files0, p, a, bps)
               m == IOBytes \cup {"io.iops"}
           IN  /\ DOMAIN w \subseteq DOMAIN files0 \cup (m \cap p \cap a)
               /\ DOMAIN files0 \subseteq DOMAIN w
               /\ \A x \in DOMAIN files0 \ m : w[x] = files0[x]
               /\ \A x \in IOBytes \cap (DOMAIN w \ DOMAIN files0) : w[x] = bps
               /\ \A x \in IOBytes \cap p \cap a : "io.iops" \in DOMAIN w => "io.iops" \in DOMAIN files0
               /\ \A x \in IOBytes \cap p \cap a : \E y \in IOBytes : y \in DOMAIN w
<1> USE DEF IOBytes
<1> DEFINE w == SetIOLimit(files0, p, a, bps)
<1>1. CASE "io.rbps" \in p \cap a
  <2>1. w = Overlay(Entry("io.rbps", bps), files0)
    BY <1>1 DEF SetIOLimit
  <2> QED
    BY <1>1, <2>1 DEF Overlay, Entry
<1>2. CASE "io.rbps" \notin p \cap a /\ "io.wbps" \in p \cap a
  <2>1. w = Overlay(Entry("io.wbps", bps), files0)
    BY <1>2 DEF SetIOLimit
  <2> QED
    BY <1>2, <2>1 DEF Overlay, Entry
<1>3. CASE {"io.rbps", "io.wbps"} \cap (p \cap a) = {} /\ "io.max.rbps" \in p \cap a
  <2>1. w = Overlay(Entry("io.max.rbps", bps), files0)
    BY <1>3 DEF SetIOLimit
  <2> QED
    BY <1>3, <2>1 DEF Overlay, Entry
<1>4. CASE IOBytes \cap (p \cap a) = {} /\ "io.iops" \in p \cap a
  <2>1. w = Overlay(Entry("io.iops", 1000), files0)
    BY <1>4 DEF SetIOLimit
  <2> QED
    BY <1>4, <2>1 DEF Overlay, Entry
<1>5. CASE (IOBytes \cup {"io.iops"}) \cap (p \cap a) = {}
  <2>1. w = files0
    BY <1>5 DEF SetIOLimit
  <2> QED
    BY <1>5, <2>1
<1> QED
  BY <1>1, <1>2, <1>3, <1>4, <1>5

\* What Create writes for given limits.
LEMMA Created ==
    ASSUME NEW p, NEW a, NEW ask \in [cpu : Int, mem : Int, io : Int]
    PROVE  LET w == Create(p, a, ask)
           IN  /\ DOMAIN w \subseteq p \cap a
               /\ "cpu.max" \in DOMAIN w => w["cpu.max"] = Quota(ask.cpu)
               /\ "cpu.weight" \in DOMAIN w => ask.cpu > 0 /\ w["cpu.weight"] = Weight(ask.cpu)
               /\ "memory.max" \in DOMAIN w => ask.mem > 0 /\ w["memory.max"] = MemoryBytes(ask.mem)
               /\ "memory.high" \in DOMAIN w => w["memory.high"] = SoftLimit(MemoryBytes(ask.mem))
               /\ \A f \in IOBytes \cap DOMAIN w : w[f] = ask.io
               /\ \A f \in IOBytes \cap p \cap a : "io.iops" \notin DOMAIN w
               /\ ask.cpu > 0 /\ "cpu.max" \in p \cap a => "cpu.max" \in DOMAIN w
               /\ ask.mem > 0 /\ "memory.max" \in p \cap a => "memory.max" \in DOMAIN w
               /\ ask.io > 0 => \A f \in IOBytes \cap p \cap a : \E g \in IOBytes : g \in DOMAIN w
<1> DEFINE cpu == IF ask.cpu > 0 THEN SetCPULimit(<<>>, p, a, ask.cpu) ELSE <<>>
           mem == IF ask.mem > 0 THEN SetMemoryLimit(cpu, p, a, ask.mem) ELSE cpu
           w   == Create(p, a, ask)
<1>1. w = IF ask.io > 0 THEN SetIOLimit(mem, p, a, ask.io) ELSE mem
  BY DEF Create
<1>2. /\ DOMAIN cpu \subseteq {"cpu.max", "cpu.weight"} \cap p \cap a
      /\ "cpu.max" \in DOMAIN cpu => cpu["cpu.max"] = Quota(ask.cpu)
      /\ "cpu.weight" \in DOMAIN cpu => ask.cpu > 0 /\ cpu["cpu.weight"] = Weight(ask.cpu)
      /\ ask.cpu > 0 /\ "cpu.max" \in p \cap a => "cpu.max" \in DOMAIN cpu
  <2>1. DOMAIN <<>> = {} /\ ask.cpu \in Int
    OBVIOUS
  <2> QED
    BY <2>1, CPUWritten
<1> HIDE DEF cpu
<1>3. /\ DOMAIN mem \subseteq {"cpu.max", "cpu.weight", "memory.max", "memory.high"} \cap p \cap a
      /\ DOMAIN cpu \subseteq DOMAIN mem
      /\ \A f \in DOMAIN cpu : mem[f] = cpu[f]
      /\ DOMAIN mem \subseteq DOMAIN cpu \cup {"memory.max", "memory.high"}
      /\ "memory.max" \in DOMAIN mem => ask.mem > 0 /\ mem["memory.max"] = MemoryBytes(ask.mem)
      /\ "memory.high" \in DOMAIN mem => mem["memory.high"] = SoftLimit(MemoryBytes(ask.mem))
      /\ ask.mem > 0 /\ "memory.max" \in p \cap a => "memory.max" \in DOMAIN mem
  <2>1. CASE ask.mem > 0
    <3> DEFINE v == SetMemoryLimit(cpu, p, a, ask.mem)
    <3>1. /\ DOMAIN v \subseteq DOMAIN cpu \cup ({"memory.max", "memory.high"} \cap p \cap a)
          /\ DOMAIN cpu \cup ({"memory.max", "memory.high"} \cap p \cap a) \subseteq DOMAIN v
          /\ \A x \in DOMAIN cpu \ {"memory.max", "memory.high"} : v[x] = cpu[x]
          /\ "memory.max" \in p \cap a => v["memory.max"] = MemoryBytes(ask.mem)
          /\ "memory.high" \in p \cap a => v["memory.high"] = SoftLimit(MemoryBytes(ask.mem))
      BY MemoryWritten
    <3>2. mem = v
      BY <2>1
    <3> HIDE DEF v, mem
    <3> QED
      BY <1>2, <2>1, <3>1, <3>2
  <2>2. CASE ~(ask.mem > 0)
    <3>1. mem = cpu
      BY <2>2
    <3> HIDE DEF mem
    <3> QED
      BY <1>2, <2>2, <3>1
  <2> QED
    BY <2>1, <2>2
<1> HIDE DEF mem
<1>4. /\ DOMAIN w \subseteq p \cap a
      /\ DOMAIN mem \subseteq DOMAIN w
      /\ \A f \in DOMAIN mem : w[f] = mem[f]
      /\ DOMAIN w \subseteq DOMAIN mem \cup IOBytes \cup {"io.iops"}
      /\ \A f \in IOBytes \cap DOMAIN w : w[f] = ask.io
      /\ \A f \in IOBytes \cap p \cap a : "io.iops" \notin DOMAIN w
      /\ ask.io > 0 => \A f \in IOBytes \cap p \cap a : \E g \in IOBytes : g \in DOMAIN w
  <2>1. \A f \in IOBytes \cup {"io.iops"} : f \notin DOMAIN mem
    BY <1>3 DEF IOBytes
  <2>2. CASE ask.io > 0
    <3> DEFINE v == SetIOLimit(mem, p, a, ask.io)
    <3>1. /\ DOMAIN v \subseteq DOMAIN mem \cup ((IOBytes \cup {"io.iops"}) \cap p \cap a)
          /\ DOMAIN mem \subseteq DOMAIN v
          /\ \A x \in DOMAIN mem \ (IOBytes \cup {"io.iops"}) : v[x] = mem[x]
          /\ \A x \in IOBytes \cap (DOMAIN v \ DOMAIN mem) : v[x] = ask.io
          /\ \A x \in IOBytes \cap p \cap a : "io.iops" \in DOMAIN v => "io.iops" \in DOMAIN mem
          /\ \A x \in IOBytes \cap p \cap a : \E y \in IOBytes : y \in DOMAIN v
      BY IOWritten
    <3>2. w = v
      BY <1>1, <2>2
    <3> HIDE DEF v, w
    <3> QED
      BY <1>3, <2>1, <3>1, <3>2
  <2>3. CASE ~(ask.io > 0)
    <3>1. w = mem
      BY <1>1, <2>3
    <3> HIDE DEF w
    <3> QED
      BY <1>3, <2>1, <2>3, <3>1
  <2> QED
    BY <2>2, <2>3
<1> HIDE DEF w
<1>5. /\ "cpu.max" \in DOMAIN w => w["cpu.max"] = Quota(ask.cpu)
      /\ "cpu.weight" \in DOMAIN w => ask.cpu > 0 /\ w["cpu.weight"] = Weight(ask.cpu)
      /\ ask.cpu > 0 /\ "cpu.max" \in p \cap a => "cpu.max" \in DOMAIN w
  BY <1>2, <1>3, <1>4 DEF IOBytes
<1>6. /\ "memory.max" \in DOMAIN w => ask.mem > 0 /\ w["memory.max"] = MemoryBytes(ask.mem)
      /\ "memory.high" \in DOMAIN w => w["memory.high"] = SoftLimit(MemoryBytes(ask.mem))
      /\ ask.mem > 0 /\ "memory.max" \in p \cap a => "memory.max" \in DOMAIN w
  BY <1>3, <1>4 DEF IOBytes
<1> QED
  BY <1>4, <1>5, <1>6 DEF w

-----------------------------------------------------------------------------
(* The command line *)

Tokens == [kind : Limits \cup {"word", "unknown"}, text : STRING, val : Int \cup {Junk}]

\* What the parser knows of a command line.
LEMMA TokensTyped ==
    ASSUME NEW a \in Argvs
    PROVE  /\ a \in Seq(Tokens) /\ Len(a) \in Nat /\ DOMAIN a = 1 .. Len(a)
           /\ \A i \in DOMAIN a : a[i] \in Tokens
<1>1. a \in Seq(Tokens)
  BY ArgvsAssumption DEF Tokens
<1> QED
  BY <1>1

\* The arguments are those typed behind the command.
LEMMA ArgumentsTyped ==
    ASSUME NEW a \in Argvs, RunRun(a) # NoRequest
    PROVE  RunRun(a).args \in Seq(STRING)
<1> DEFINE start == CommandStart(a)
           rest  == SubSeq(a, start, Len(a))
           words == {i \in Scanned(a) : a[i].kind = "word"}
<1>1. a \in Seq(Tokens) /\ Len(a) \in Nat /\ DOMAIN a = 1 .. Len(a)
  BY TokensTyped
<1>2. a # <<>> /\ RunRun(a).args = [i \in 1 .. Len(rest) - 1 |-> rest[i + 1].text]
  BY DEF RunRun
<1>3. start \in 1 .. Len(a)
  <2>1. words \subseteq 1 .. Len(a)
    BY <1>1 DEF Scanned
  <2>2. words # {} => Min(words) \in words
    <3>1. words \in SUBSET Nat
      BY <1>1, <2>1
    <3> QED
      BY <3>1, LeastOne
  <2>3. Len(a) >= 1
    BY <1>1, <1>2
  <2> QED
    BY <2>1, <2>2, <2>3 DEF CommandStart
<1> HIDE DEF start
<1>4. rest \in Seq(Tokens) /\ Len(rest) \in Nat /\ Len(rest) >= 1
  BY <1>1, <1>3
<1> HIDE DEF rest
<1>5. \A i \in 1 .. Len(rest) - 1 : rest[i + 1].text \in STRING
  <2> TAKE i \in 1 .. Len(rest) - 1
  <2>1. rest[i + 1] \in Tokens
    BY <1>4
  <2> QED
    BY <2>1 DEF Tokens
<1>6. Len(rest) - 1 \in Nat
  BY <1>4
<1> QED
  BY <1>2, <1>5, <1>6

\* If the line is accepted, a limit before the first word is one the loop gets
\* to: an unknown flag in front of it would have refused the line.
LEMMA SameFlags ==
    ASSUME NEW a \in Argvs, RunRun(a) # NoRequest, NEW limit \in Limits
    PROVE  {i \in Scanned(a) : a[i].kind = limit /\ a[i].val # Junk}
             = {i \in DOMAIN a : /\ a[i].kind = limit
                                 /\ a[i].val # Junk
                                 /\ \A k \in 1 .. i : a[k].kind # "word"}
<1> DEFINE flags == {i \in Scanned(a) : a[i].kind = limit /\ a[i].val # Junk}
           asked == {i \in DOMAIN a : /\ a[i].kind = limit
                                      /\ a[i].val # Junk
                                      /\ \A k \in 1 .. i : a[k].kind # "word"}
<1>1. /\ Len(a) \in Nat /\ DOMAIN a = 1 .. Len(a)
      /\ \A i \in DOMAIN a : a[i].kind \in Limits \cup {"word", "unknown"}
  BY TokensTyped DEF Tokens
<1>2. "word" \notin Limits
  BY DEF Limits
<1>3. flags \subseteq asked
  <2> SUFFICES ASSUME NEW i \in flags
               PROVE  i \in asked
    OBVIOUS
  <2>1. i \in DOMAIN a /\ (\A k \in 1 .. i - 1 : a[k].kind \in Limits) /\ a[i].kind = limit
    BY DEF Scanned
  <2>2. \A k \in 1 .. i : a[k].kind # "word"
    <3> TAKE k \in 1 .. i
    <3>1. k = i \/ k \in 1 .. i - 1
      BY <1>1, <2>1
    <3> QED
      BY <1>2, <2>1, <3>1
  <2> QED
    BY <2>1, <2>2
<1>4. asked \subseteq flags
  <2> SUFFICES ASSUME NEW i \in asked
               PROVE  \A k \in 1 .. i - 1 : a[k].kind \in Limits
    BY DEF Scanned
  <2> DEFINE odd == {k \in 1 .. i - 1 : a[k].kind \notin Limits}
  <2>1. SUFFICES ASSUME odd # {} PROVE FALSE
    OBVIOUS
  <2>2. i \in DOMAIN a /\ i \in Nat /\ i <= Len(a)
    BY <1>1
  <2>3. odd \subseteq Nat
    BY <2>2
  <2>4. Min(odd) \in odd /\ \A k \in odd : Min(odd) <= k
    BY <2>1, <2>3, LeastOne
  <2> DEFINE m == Min(odd)
  <2> HIDE DEF m
  <2>5. m \in 1 .. i - 1 /\ a[m].kind \notin Limits /\ \A k \in odd : m <= k
    BY <2>4 DEF m
  <2>6. m \in DOMAIN a
    BY <1>1, <2>2, <2>5
  <2>7. \A k \in 1 .. m - 1 : a[k].kind \in Limits
    <3> SUFFICES ASSUME NEW k \in 1 .. m - 1, a[k].kind \notin Limits PROVE FALSE
      OBVIOUS
    <3>1. k \in 1 .. i - 1 /\ k < m
      BY <2>2, <2>5
    <3>2. m <= k
      BY <2>5, <3>1
    <3> QED
      BY <2>5, <3>1, <3>2
  <2>8. a[m].kind # "word"
    BY <2>2, <2>5
  <2>9. m \in Scanned(a) /\ a[m].kind = "unknown"
    BY <1>1, <2>5, <2>6, <2>7, <2>8 DEF Scanned
  <2> QED
    BY <2>9 DEF RunRun
<1> QED
  BY <1>3, <1>4

\* What createJobDomain makes of the parsed flag is what was asked for.
LEMMA AskedIsParsed ==
    ASSUME argv \in Argvs, RunRun(argv) # NoRequest, NEW limit \in Limits, NEW default
    PROVE  /\ AskedFor(limit, default) = WithDefault(ValueOf(argv, limit), default)
           /\ ValueOf(argv, limit) \in Int
<1> DEFINE good == {i \in Scanned(argv) : argv[i].kind = limit /\ argv[i].val # Junk}
           value == argv[CHOOSE i \in good : \A k \in good : k <= i].val
<1>1. /\ Len(argv) \in Nat /\ DOMAIN argv = 1 .. Len(argv)
      /\ \A i \in DOMAIN argv : argv[i].val \in Int \cup {Junk}
  BY TokensTyped DEF Tokens
<1>2. AskedFor(limit, default) = IF good # {} /\ value > 0 THEN value ELSE default
  <2> DEFINE asked == {i \in DOMAIN argv : /\ argv[i].kind = limit
                                           /\ argv[i].val # Junk
                                           /\ \A k \in 1 .. i : argv[k].kind # "word"}
             v     == argv[CHOOSE i \in asked : \A k \in asked : k <= i].val
  <2>1. good = asked
    BY SameFlags
  <2>2. AskedFor(limit, default) = IF asked # {} /\ v > 0 THEN v ELSE default
    BY DEF AskedFor
  <2> HIDE DEF good, asked
  <2> QED
    BY <2>1, <2>2
<1>3. ValueOf(argv, limit) = IF good = {} THEN 0 ELSE argv[Max(good)].val
  BY DEF ValueOf
<1>4. CASE good = {}
  BY <1>2, <1>3, <1>4 DEF WithDefault
<1>5. CASE good # {}
  <2>1. good \subseteq 1 .. Len(argv)
    BY <1>1 DEF Scanned
  <2>2. Max(good) \in good /\ \A k \in good : k <= Max(good)
    BY <1>1, <1>5, <2>1, GreatestOne
  <2> DEFINE last == CHOOSE i \in good : \A k \in good : k <= i
  <2>3. last \in good /\ \A k \in good : k <= last
    BY <2>2
  <2> HIDE DEF last
  <2>4. Max(good) = last
    <3>1. Max(good) \in Int /\ last \in Int
      BY <2>1, <2>2, <2>3
    <3>2. Max(good) <= last /\ last <= Max(good)
      BY <2>2, <2>3
    <3> QED
      BY <3>1, <3>2
  <2>5. argv[last].val \in Int
    BY <1>1, <2>1, <2>3
  <2>6. /\ AskedFor(limit, default) = IF argv[last].val > 0 THEN argv[last].val ELSE default
        /\ ValueOf(argv, limit) = argv[last].val
    BY <1>2, <1>3, <1>5, <2>4 DEF last
  <2> QED
    BY <2>5, <2>6 DEF WithDefault
<1> QED
  BY <1>4, <1>5

-----------------------------------------------------------------------------
(* The request up to the launch *)

ConfiguredLimits == {"CPULimit", "MemoryLimit", "IOLimit"}

\* What the stages of a request have established: the configured limits are
\* numbers, the request is what the command line says, the job has the request's
\* arguments and limits, the cgroup what Create wrote for them.
RequestInv ==
    /\ pc \notin {"boot", "down"} => \A f \in ConfiguredLimits : cfg[f] \in Int
    /\ pc \in {"sent", "create", "launch", "launched", "failed"} =>
           argv \in Argvs /\ request = RunRun(argv) /\ request # NoRequest
    /\ pc \in {"create", "launch", "launched", "failed"} =>
           job = CreateJobDomain(request, job.command)
    /\ pc = "launch" => limits = Create(present, accepted, job.limits)

Inv == TypeOK /\ RequestInv

\* A fresh instance satisfies it.
LEMMA InitInv == Init => Inv
<1> SUFFICES ASSUME Init PROVE Inv
  OBVIOUS
<1>1. GlobalLogger \in LogLevels
  BY DEF GlobalLogger, NewLogger, LogLevels, DEBUG, INFO, ERROR
<1>2. DOMAIN <<>> = {}
  OBVIOUS
<1> QED
  BY <1>1, <1>2 DEF Init, Inv, TypeOK, RequestInv

\* The limits of a job that is about to be created are numbers.
LEMMA JobLimits ==
    ASSUME Inv, pc \in {"create", "launch"}
    PROVE  /\ job.limits \in [cpu : Int, mem : Int, io : Int]
           /\ job.limits.cpu = AskedFor("cpu", cfg.CPULimit)
           /\ job.limits.mem = AskedFor("mem", cfg.MemoryLimit)
           /\ job.limits.io = AskedFor("io", cfg.IOLimit)
<1>1. /\ argv \in Argvs /\ RunRun(argv) # NoRequest
      /\ request = RunRun(argv) /\ job = CreateJobDomain(request, job.command)
      /\ cfg.CPULimit \in Int /\ cfg.MemoryLimit \in Int /\ cfg.IOLimit \in Int
  BY DEF Inv, RequestInv, ConfiguredLimits
<1>2. \A l \in Limits : request.limits[l] = ValueOf(argv, l)
  BY <1>1 DEF RunRun
<1>3. "cpu" \in Limits /\ "mem" \in Limits /\ "io" \in Limits
  BY DEF Limits
<1>4. job.limits = [cpu |-> WithDefault(ValueOf(argv, "cpu"), cfg.CPULimit),
                    mem |-> WithDefault(ValueOf(argv, "mem"), cfg.MemoryLimit),
                    io  |-> WithDefault(ValueOf(argv, "io"), cfg.IOLimit)]
  <2>1. job.limits = CreateJobDomain(request, job.command).limits
    BY <1>1
  <2> QED
    BY <1>2, <1>3, <2>1 DEF CreateJobDomain
<1>5. \A l \in Limits : \A d \in Int :
         WithDefault(ValueOf(argv, l), d) \in Int
         /\ AskedFor(l, d) = WithDefault(ValueOf(argv, l), d)
  BY <1>1, AskedIsParsed DEF WithDefault
<1> QED
  BY <1>1, <1>3, <1>4, <1>5

\* Logging keeps the output within the levels.
LEMMA LogTyped ==
    ASSUME NEW l, NEW level \in LogLevels, NEW out \in SUBSET LogLines
    PROVE  Log(l, level, out) \in SUBSET LogLines
BY DEF Log, LogLines

\* The levels that are logged.
LEMMA Levels == DEBUG \in LogLevels /\ WARN \in LogLevels /\ ERROR \in LogLevels
BY DEF LogLevels, DEBUG, WARN, ERROR

\* A line without a level is none of them.
LEMMA PlainIsNoLevel == Plain \notin LogLevels
BY DEF Plain, LogLevels, DEBUG, ERROR

\* The worker's start: a configuration it goes on with has numbers for limits.
LEMMA BootStep ==
    ASSUME Inv, Boot
    PROVE  Inv'
<1>1. /\ cfg' = LoadConfig(files, base.conf)
      /\ pc' = IF cfg' = NoConfig \/ cfg'.Mode = "init" THEN "down" ELSE "ready"
      /\ UNCHANGED <<files, base, fs, argv, request, job, present, accepted, limits, childVars>>
  BY DEF Boot
<1>2. files \in FileLists /\ base \in BaseEnvs
  BY DEF Inv, TypeOK
<1>3. cfg' = NoConfig \/ DOMAIN cfg' = Fields
  BY <1>1, LoadedField DEF Fields, TextFields
<1>4. cfg' # NoConfig => \A f \in ConfiguredLimits : cfg'[f] \in Int
  BY <1>1, <1>2, NumberLoaded DEF ConfiguredLimits
<1>5. TypeOK'
  BY <1>1, <1>3 DEF Inv, TypeOK, childVars
<1>6. RequestInv'
  BY <1>1, <1>4 DEF RequestInv
<1> QED
  BY <1>5, <1>6 DEF Inv

\* TypeOK in two parts: what the worker and the client write, what the child writes.
RequestTyped ==
    /\ files \in FileLists
    /\ base \in BaseEnvs
    /\ fs \subseteq Executables
    /\ cfg = NoConfig \/ DOMAIN cfg = Fields
    /\ pc \in {"boot", "down", "ready", "sent", "create", "launch", "launched",
               "failed", "refused"}
    /\ argv \in Argvs \cup {<<>>}
    /\ job # NoJob => job.command \in Executables
    /\ present \subseteq AllControlFiles
    /\ accepted \subseteq present
    /\ DOMAIN limits \subseteq accepted

ChildTyped ==
    /\ child \in {"none", "main", "server", "assign", "load", "isolate", "remount",
                  "verify", "exec", "command", "exited"}
    /\ childCfg = NoConfig \/ DOMAIN childCfg = Fields
    /\ childLogger \in LogLevels
    /\ output \subseteq LogLines
    /\ private \in {"not yet", "yes", "failed"}
    /\ proc \in [{"worker", "child"} -> {"host", "none", "job"}]

\* A step that leaves a part alone keeps it typed.
LEMMA RequestKept ==
    ASSUME TypeOK, UNCHANGED <<files, base, fs, requestVars>>
    PROVE  RequestTyped'
<1>1. UNCHANGED <<files, base, fs, cfg, pc, argv, job, present, accepted, limits>>
  BY DEF requestVars
<1>2. /\ (job # NoJob => job.command \in Executables)'
      /\ (present \subseteq AllControlFiles)' /\ (accepted \subseteq present)'
      /\ (DOMAIN limits \subseteq accepted)' /\ (argv \in Argvs \cup {<<>>})'
  BY <1>1 DEF TypeOK
<1>3. /\ (files \in FileLists)' /\ (base \in BaseEnvs)' /\ (fs \subseteq Executables)'
      /\ (cfg = NoConfig \/ DOMAIN cfg = Fields)'
  BY <1>1 DEF TypeOK
<1>4. (pc \in {"boot", "down", "ready", "sent", "create", "launch", "launched",
               "failed", "refused"})'
  BY <1>1 DEF TypeOK
<1> QED
  BY <1>2, <1>3, <1>4 DEF RequestTyped

LEMMA ChildKept ==
    ASSUME TypeOK, UNCHANGED childVars
    PROVE  ChildTyped'
<1>1. UNCHANGED <<child, childCfg, childLogger, output, private, proc>>
  BY DEF childVars
<1> QED
  BY <1>1 DEF TypeOK, ChildTyped

\* The request is what RunRun makes of the line.
LEMMA TypeCommandStep ==
    ASSUME Inv, TypeCommand
    PROVE  Inv'
<1>1. TypeOK'
  BY DEF TypeCommand, Inv, TypeOK, childVars
<1>2. RequestInv'
  BY DEF TypeCommand, Inv, RequestInv
<1> QED
  BY <1>1, <1>2 DEF Inv

\* The job gets a command that exists and the limits of the request.
LEMMA StartJobStep ==
    ASSUME Inv, StartJob
    PROVE  Inv'
<1> DEFINE resolved == Resolve(request.command, CommonPaths)
<1>1. /\ pc = "sent"
      /\ UNCHANGED <<files, base, fs, cfg, argv, request, present, accepted, limits, childVars>>
      /\ \/ resolved # NotFound /\ job' = CreateJobDomain(request, resolved) /\ pc' = "create"
         \/ job' = job /\ pc' = "refused"
  BY DEF StartJob
<1>2. resolved # NotFound => resolved \in Executables
  <2>1. DOMAIN CommonPaths \subseteq Nat
    BY DEF CommonPaths
  <2>2. fs \subseteq Executables
    BY DEF Inv, TypeOK
  <2> QED
    BY <2>1, <2>2, ResolveFinds
<1> HIDE DEF resolved
<1>3. CreateJobDomain(request, resolved).command = resolved
  BY DEF CreateJobDomain
<1>4. job' = job \/ job'.command \in Executables
  BY <1>1, <1>2, <1>3
<1>5. TypeOK'
  <2>1. ChildTyped'
    BY <1>1, ChildKept DEF Inv
  <2>2. RequestTyped'
    BY <1>1, <1>4 DEF Inv, TypeOK, RequestTyped
  <2> QED
    BY <2>1, <2>2 DEF TypeOK, RequestTyped, ChildTyped
<1>6. pc' = "create" => job' = CreateJobDomain(request, job'.command)
  BY <1>1, <1>3
<1>7. pc' = "create" => job' = CreateJobDomain(request, job.command)'
  BY <1>1, <1>6 DEF CreateJobDomain
<1>8. RequestInv'
  BY <1>1, <1>7 DEF Inv, RequestInv
<1> QED
  BY <1>5, <1>8 DEF Inv

\* Create writes accepted files only.
LEMMA CreateCgroupStep ==
    ASSUME Inv, CreateCgroup
    PROVE  Inv'
<1>1. /\ pc = "create"
      /\ UNCHANGED <<files, base, fs, cfg, argv, request, job, childVars>>
      /\ \/ /\ pc' = "launch"
            /\ limits' = Create(present', accepted', job.limits)
            /\ present' \subseteq AllControlFiles
            /\ accepted' \subseteq present'
         \/ pc' = "failed" /\ UNCHANGED <<present, accepted, limits>>
  BY ControlFilesKnown DEF CreateCgroup, CreateCgroupFails
<1>2. present' \subseteq AllControlFiles
  BY <1>1 DEF Inv, TypeOK
<1>3. accepted' \subseteq present'
  BY <1>1 DEF Inv, TypeOK
<1>4. DOMAIN limits' \subseteq accepted'
  <2>1. CASE limits' = Create(present', accepted', job.limits)
    BY <1>1, <2>1, JobLimits, Created
  <2>2. CASE UNCHANGED <<present, accepted, limits>>
    BY <2>2 DEF Inv, TypeOK
  <2> QED
    BY <1>1, <2>1, <2>2
<1>5. TypeOK'
  <2>1. ChildTyped'
    BY <1>1, ChildKept DEF Inv
  <2>2. RequestTyped'
    BY <1>1, <1>2, <1>3, <1>4 DEF Inv, TypeOK, RequestTyped
  <2> QED
    BY <2>1, <2>2 DEF TypeOK, RequestTyped, ChildTyped
<1>6. job' = CreateJobDomain(request, job.command)'
  BY <1>1 DEF Inv, RequestInv, CreateJobDomain
<1>7. RequestInv'
  BY <1>1, <1>6 DEF Inv, RequestInv
<1> QED
  BY <1>5, <1>7 DEF Inv

\* From then on the request, the job and the limits stay as they are.
LEMMA LaterStep ==
    ASSUME Inv, TypeOK', EditConfig \/ ChangeExecutables \/ Launch \/ ChildNext \/ UNCHANGED vars
    PROVE  Inv'
<1>1. /\ UNCHANGED <<cfg, argv, request, job, present, accepted, limits>>
      /\ pc' = pc \/ (pc = "launch" /\ pc' \in {"launched", "failed"})
  BY DEF EditConfig, ChangeExecutables, Launch, ChildNext, ChildMain, ChildAssign, ChildLoad,
         MakePrivate, RemountProc, VerifyIsolation, ChildExecute, ValidateLaunchConfigFails,
         requestVars, vars
<1>2. CreateJobDomain(request, job.command)' = CreateJobDomain(request, job.command)
  BY <1>1 DEF CreateJobDomain
<1> QED
  BY <1>1, <1>2 DEF Inv, RequestInv

\* They keep the types.
LEMMA LaterTypes ==
    ASSUME TypeOK, EditConfig \/ ChangeExecutables \/ Launch \/ ChildNext \/ UNCHANGED vars
    PROVE  TypeOK'
<1>1. CASE EditConfig \/ ChangeExecutables \/ UNCHANGED vars
  <2>1. ChildTyped'
    BY <1>1, ChildKept DEF EditConfig, ChangeExecutables, vars
  <2>2. /\ files' \in FileLists /\ fs' \subseteq Executables
        /\ UNCHANGED <<base, requestVars>>
    BY <1>1 DEF EditConfig, ChangeExecutables, TypeOK, vars
  <2>3. RequestTyped'
    BY <2>2 DEF TypeOK, RequestTyped, requestVars
  <2> QED
    BY <2>1, <2>3 DEF TypeOK, RequestTyped, ChildTyped
<1>2. CASE Launch
  BY <1>2 DEF Launch, ValidateLaunchConfigFails, TypeOK
<1>3. CASE ChildNext
  <2>0. RequestTyped'
    BY <1>3, RequestKept DEF ChildNext, ChildMain, ChildAssign, ChildLoad, MakePrivate,
           RemountProc, VerifyIsolation, ChildExecute
  <2> SUFFICES ChildTyped'
    BY <2>0 DEF TypeOK, RequestTyped, ChildTyped
  <2>1. \A l, level \in LogLevels : Log(l, level, output) \in SUBSET LogLines
    BY LogTyped DEF TypeOK
  <2>2. \A what \in {"none", "job"} :
           MountProc(what) \in [{"worker", "child"} -> {"host", "none", "job"}]
    BY DEF MountProc, TypeOK
  <2>3. WithFields(childLogger) \in LogLevels
    BY DEF WithFields, TypeOK
  <2>4. ChildFails => child' = "exited" /\ output' \subseteq LogLines
    BY <2>1, <2>3, Levels DEF ChildFails
  <2>5. \A to : ChildGoes(to) => child' = to /\ output' \subseteq LogLines
    BY <2>1, <2>3, Levels DEF ChildGoes
  <2>6. CASE ChildMain
    <3>1. childLogger' \in LogLevels
      BY <2>6, LevelLoaded DEF ChildMain, TypeOK
    <3>2. output' \subseteq LogLines
      <4>1. output \subseteq LogLines /\ Plain \in LogLines
        BY DEF TypeOK, LogLines
      <4>2. CASE output' = output \cup {Plain}
        BY <4>1, <4>2
      <4>3. CASE \E logging \in InitializeLogging(LoadConfig(files, env.conf)) :
                    output' = Log(WithFields(childLogger'), DEBUG, output \cup logging.lines)
        <5>1. PICK logging \in InitializeLogging(LoadConfig(files, env.conf)) :
                  output' = Log(WithFields(childLogger'), DEBUG, output \cup logging.lines)
          BY <4>3
        <5>2. output \cup logging.lines \in SUBSET LogLines
          BY <4>1, LevelLoaded
        <5> QED
          BY <5>1, <5>2, LogTyped, Levels
      <4> QED
        BY <2>6, <4>2, <4>3 DEF ChildMain
    <3>3. childCfg' = NoConfig \/ DOMAIN childCfg' = Fields
      <4> DEFINE c == LoadConfig(files, env.conf)
      <4>1. childCfg' = childCfg \/ childCfg' = c
        BY <2>6 DEF ChildMain
      <4>2. c = NoConfig \/ DOMAIN c = Fields
        BY LoadedField DEF Fields, TextFields
      <4> HIDE DEF c
      <4> QED
        BY <4>1, <4>2 DEF TypeOK
    <3> QED
      BY <2>6, <3>1, <3>2, <3>3 DEF ChildMain, TypeOK, ChildTyped
  <2>7. CASE ChildAssign
    <3>1. /\ child' \in {"load", "isolate", "remount", "verify", "exec", "command", "exited"}
          /\ output' \subseteq LogLines
      BY <2>7, <2>4, <2>5 DEF ChildAssign
    <3>2. UNCHANGED <<childCfg, childLogger, private, proc>>
      BY <2>7 DEF ChildAssign
    <3> QED
      BY <3>1, <3>2 DEF TypeOK, ChildTyped
  <2>8. CASE ChildLoad
    <3>1. /\ child' \in {"load", "isolate", "remount", "verify", "exec", "command", "exited"}
          /\ output' \subseteq LogLines
      BY <2>8, <2>4, <2>5 DEF ChildLoad
    <3>2. UNCHANGED <<childCfg, childLogger, private, proc>>
      BY <2>8 DEF ChildLoad
    <3> QED
      BY <3>1, <3>2 DEF TypeOK, ChildTyped
  <2>9. CASE MakePrivate
    <3>1. /\ child' \in {"load", "isolate", "remount", "verify", "exec", "command", "exited"}
          /\ output' \subseteq LogLines
      BY <2>9, <2>1, <2>3, <2>5, Levels DEF MakePrivate
    <3>2. /\ private' \in {"not yet", "yes", "failed"}
          /\ UNCHANGED <<childCfg, childLogger, proc>>
      BY <2>9 DEF MakePrivate, TypeOK
    <3> QED
      BY <3>1, <3>2 DEF TypeOK, ChildTyped
  <2>10. CASE RemountProc
    <3>1. /\ child' \in {"load", "isolate", "remount", "verify", "exec", "command", "exited"}
          /\ output' \subseteq LogLines
      BY <2>10, <2>4, <2>5 DEF RemountProc
    <3>2. /\ proc' \in [{"worker", "child"} -> {"host", "none", "job"}]
          /\ UNCHANGED <<childCfg, childLogger, private>>
      BY <2>10, <2>2 DEF RemountProc, TypeOK
    <3> QED
      BY <3>1, <3>2 DEF TypeOK, ChildTyped
  <2>11. CASE VerifyIsolation
    <3>1. /\ child' \in {"load", "isolate", "remount", "verify", "exec", "command", "exited"}
          /\ output' \subseteq LogLines
      BY <2>11, <2>1, <2>3, <2>5, Levels DEF VerifyIsolation
    <3>2. UNCHANGED <<childCfg, childLogger, private, proc>>
      BY <2>11 DEF VerifyIsolation
    <3> QED
      BY <3>1, <3>2 DEF TypeOK, ChildTyped
  <2>12. CASE ChildExecute
    <3>1. /\ child' \in {"load", "isolate", "remount", "verify", "exec", "command", "exited"}
          /\ output' \subseteq LogLines
      BY <2>12, <2>4, <2>5 DEF ChildExecute
    <3>2. UNCHANGED <<childCfg, childLogger, private, proc>>
      BY <2>12 DEF ChildExecute
    <3> QED
      BY <3>1, <3>2 DEF TypeOK, ChildTyped
  <2> QED
    BY <1>3, <2>6, <2>7, <2>8, <2>9, <2>10, <2>11, <2>12 DEF ChildNext
<1> QED
  BY <1>1, <1>2, <1>3

\* Every step keeps the invariant.
LEMMA NextInv == Inv /\ [Next]_vars => Inv'
<1> SUFFICES ASSUME Inv, [Next]_vars PROVE Inv'
  OBVIOUS
<1>1. CASE Boot
  BY <1>1, BootStep
<1>2. CASE TypeCommand
  BY <1>2, TypeCommandStep
<1>3. CASE StartJob
  BY <1>3, StartJobStep
<1>4. CASE CreateCgroup
  BY <1>4, CreateCgroupStep
<1>5. CASE EditConfig \/ ChangeExecutables \/ Launch \/ ChildNext \/ UNCHANGED vars
  BY <1>5, LaterStep, LaterTypes DEF Inv
<1> QED
  BY <1>1, <1>2, <1>3, <1>4, <1>5 DEF Next

\* On every behaviour.
LEMMA Always == Spec => []Inv
BY InitInv, NextInv, PTL DEF Spec

\* Every variable keeps to its type: what a child is told, what a cgroup is given
\* and what a resolved command may be.
THEOREM TypeCorrect == Spec => []TypeOK
<1>1. Inv => TypeOK
  BY DEF Inv
<1> QED
  BY <1>1, Always, PTL

\* Limits are what was asked for, for any command line, files and environment:
\* the flags of runRun, createJobDomain's defaults and the writes of
\* cgroup.Create together.
THEOREM LimitsAreAsAsked == Spec => []LimitsAsAsked
<1>1. ASSUME Inv PROVE LimitsAsAsked
  <2> SUFFICES ASSUME pc = "launch" PROVE LimitsAsAsked
    BY DEF LimitsAsAsked
  <2> DEFINE ask == job.limits
  <2>1. /\ ask \in [cpu : Int, mem : Int, io : Int]
        /\ ask.cpu = AskedFor("cpu", cfg.CPULimit)
        /\ ask.mem = AskedFor("mem", cfg.MemoryLimit)
        /\ ask.io = AskedFor("io", cfg.IOLimit)
    BY <1>1, JobLimits
  <2>2. limits = Create(present, accepted, ask)
    BY <1>1 DEF Inv, RequestInv
  <2>3. accepted \subseteq present
    BY <1>1 DEF Inv, TypeOK
  <2>4. /\ "cpu.max" \in DOMAIN limits => limits["cpu.max"] = Quota(ask.cpu)
        /\ "cpu.weight" \in DOMAIN limits =>
               ask.cpu > 0 /\ limits["cpu.weight"] = Weight(ask.cpu)
        /\ "memory.max" \in DOMAIN limits =>
               ask.mem > 0 /\ limits["memory.max"] = MemoryBytes(ask.mem)
        /\ "memory.high" \in DOMAIN limits =>
               limits["memory.high"] = SoftLimit(MemoryBytes(ask.mem))
        /\ \A f \in IOBytes \cap DOMAIN limits : limits[f] = ask.io
        /\ \A f \in IOBytes \cap present \cap accepted : "io.iops" \notin DOMAIN limits
        /\ ask.cpu > 0 /\ "cpu.max" \in present \cap accepted => "cpu.max" \in DOMAIN limits
        /\ ask.mem > 0 /\ "memory.max" \in present \cap accepted => "memory.max" \in DOMAIN limits
        /\ ask.io > 0 => \A f \in IOBytes \cap present \cap accepted :
                             \E g \in IOBytes : g \in DOMAIN limits
    BY <2>1, <2>2, Created
  <2> HIDE DEF ask
  <2>5. ask.cpu \in Int /\ ask.mem \in Int
    BY <2>1
  <2>6. "cpu.max" \in DOMAIN limits => limits["cpu.max"] * 100 = ask.cpu * Period
    BY <2>4, <2>5, QuotaExact
  <2>7. "cpu.weight" \in DOMAIN limits =>
           /\ limits["cpu.weight"] \in 1 .. MaxWeight
           /\ ask.cpu <= MaxWeight => limits["cpu.weight"] = ask.cpu
    <3>1. /\ Weight(ask.cpu) \in 1 .. MaxWeight
          /\ ask.cpu > 0 /\ ask.cpu <= MaxWeight => Weight(ask.cpu) = ask.cpu
      BY <2>5, WeightClipped
    <3> QED
      BY <2>4, <3>1
  <2>8. "memory.max" \in DOMAIN limits => limits["memory.max"] \div Mega = ask.mem
    BY <2>4, <2>5, MemoryGap
  <2>9. {"memory.max", "memory.high"} \subseteq DOMAIN limits =>
           LET gap == limits["memory.max"] - limits["memory.high"]
           IN  gap > 0 /\ gap <= limits["memory.max"] \div 10 + 1
    BY <2>4, <2>5, MemoryGap
  <2>10. /\ "io.iops" \in DOMAIN limits => IOBytes \cap accepted = {}
         /\ ask.io > 0 /\ IOBytes \cap accepted # {} => IOBytes \cap DOMAIN limits # {}
    BY <2>3, <2>4
  <2> QED
    BY <2>1, <2>3, <2>4, <2>6, <2>7, <2>8, <2>9, <2>10 DEF LimitsAsAsked
<1> QED
  BY <1>1, Always, PTL

-----------------------------------------------------------------------------
(* The child *)

\* The arguments survive the environment: what LoadConfigFromEnv reads back is
\* what was put there, whatever the worker's own environment holds.
LEMMA RoundTrip ==
    ASSUME NEW b, NEW j, j.args \in Seq(STRING),
           LoadConfigFromEnv(BuildJobEnvironmentSingleBinary(b, j)) # NoJob
    PROVE  LoadConfigFromEnv(BuildJobEnvironmentSingleBinary(b, j))
             = [command |-> j.command, args |-> j.args]
<1> DEFINE e   == BuildJobEnvironmentSingleBinary(b, j)
           n   == Len(j.args)
           new == [i \in 0 .. n - 1 |-> j.args[i + 1]]
<1>1. n \in Nat /\ j.args = [i \in 1 .. n |-> j.args[i]]
  OBVIOUS
<1>2. e.command = j.command /\ e.count = n /\ e.arg = Overlay(new, b.arg)
  BY DEF BuildJobEnvironmentSingleBinary
<1>3. LoadConfigFromEnv(e) =
         [command |-> e.command,
          args    |-> [i \in 1 .. e.count |-> IF i - 1 \in DOMAIN e.arg THEN e.arg[i - 1] ELSE ""]]
  BY DEF LoadConfigFromEnv
<1>4. \A i \in 1 .. n : i - 1 \in DOMAIN e.arg /\ e.arg[i - 1] = j.args[i]
  <2> TAKE i \in 1 .. n
  <2>1. i - 1 \in 0 .. n - 1
    BY <1>1
  <2>2. i - 1 \in DOMAIN new /\ new[i - 1] = j.args[i]
    BY <1>1, <2>1
  <2> QED
    BY <1>2, <2>2 DEF Overlay
<1> HIDE DEF e, n
<1>5. [i \in 1 .. n |-> IF i - 1 \in DOMAIN e.arg THEN e.arg[i - 1] ELSE ""]
        = [i \in 1 .. n |-> j.args[i]]
  BY <1>4
<1>6. LoadConfigFromEnv(e) = [command |-> j.command, args |-> j.args]
  BY <1>1, <1>2, <1>3, <1>5
<1> QED
  BY <1>6 DEF e

\* The child sees the environment the worker built; once it has read it, it
\* knows the request; and only the last step executes anything.
ChildInv ==
    /\ child # "none" =>
           pc = "launched" /\ env = BuildJobEnvironmentSingleBinary(base, job)
    /\ child \in {"isolate", "remount", "verify", "exec", "command"} =>
           jobConfig = [command |-> job.command, args |-> request.args]
    /\ executed # NoExec => child = "command"
    /\ ExecutesTheRequest
    /\ ChildNeverServes

\* Before the launch there is no child.
LEMMA InitChild == Init => ChildInv
BY DEF Init, ChildInv, ExecutesTheRequest, ChildNeverServes

\* The job has the arguments of the request.
LEMMA JobArguments ==
    ASSUME Inv, pc = "launched"
    PROVE  job.args = request.args /\ job.args \in Seq(STRING)
<1>1. /\ argv \in Argvs /\ request = RunRun(argv) /\ request # NoRequest
      /\ job = CreateJobDomain(request, job.command)
  BY DEF Inv, RequestInv
<1>2. request.args \in Seq(STRING)
  BY <1>1, ArgumentsTyped
<1>3. job.args = CreateJobDomain(request, job.command).args
  BY <1>1
<1> QED
  BY <1>2, <1>3 DEF CreateJobDomain

\* A launch puts the environment together.
LEMMA LaunchChild ==
    ASSUME Inv, ChildInv, Launch
    PROVE  ChildInv'
<1>1. /\ pc = "launch" /\ UNCHANGED <<base, job, request, executed, jobConfig>>
      /\ \/ env' = BuildJobEnvironmentSingleBinary(base, job) /\ child' = "main" /\ pc' = "launched"
         \/ pc' = "failed" /\ UNCHANGED <<env, child>>
  BY DEF Launch, ValidateLaunchConfigFails
<1>2. child = "none" /\ executed = NoExec
  BY <1>1 DEF ChildInv
<1> QED
  BY <1>1, <1>2 DEF ChildInv, ExecutesTheRequest, ChildNeverServes

\* The child's own start: the mode comes from the environment.
LEMMA MainChild ==
    ASSUME ChildInv, ChildMain
    PROVE  ChildInv'
<1> DEFINE c == LoadConfig(files, env.conf)
<1>1. /\ child = "main"
      /\ UNCHANGED <<base, pc, job, request, env, executed, jobConfig>>
      /\ \/ child' = "exited"
         \/ c # NoConfig /\ child' = IF c.Mode = "init" THEN "assign" ELSE "server"
  BY DEF ChildMain, requestVars
<1>2. "Mode" \in DOMAIN env.conf /\ env.conf.Mode = "init"
  <2>1. env.conf = Overlay(Entry("Mode", "init"), base.conf)
    BY <1>1 DEF ChildInv, BuildJobEnvironmentSingleBinary
  <2> QED
    BY <2>1 DEF Overlay, Entry
<1>3. c # NoConfig => c.Mode = "init"
  BY <1>2, ModeFromEnv
<1> HIDE DEF c
<1>4. child' \in {"exited", "assign"}
  BY <1>1, <1>3
<1> QED
  BY <1>1, <1>4 DEF ChildInv, ExecutesTheRequest, ChildNeverServes

\* The child reads its job.
LEMMA LoadChild ==
    ASSUME Inv, ChildInv, ChildLoad
    PROVE  ChildInv'
<1>1. /\ child = "load" /\ UNCHANGED <<base, pc, job, request, env, executed>>
      /\ jobConfig' = LoadConfigFromEnv(env)
      /\ \/ child' = "exited"
         \/ jobConfig' # NoJob /\ child' = "isolate"
  BY DEF ChildLoad, ChildFails, ChildGoes, requestVars
<1>2. pc = "launched" /\ env = BuildJobEnvironmentSingleBinary(base, job)
  BY <1>1 DEF ChildInv
<1>3. job.args = request.args /\ job.args \in Seq(STRING)
  BY <1>2, JobArguments
<1>4. jobConfig' # NoJob => jobConfig' = [command |-> job.command, args |-> request.args]
  BY <1>1, <1>2, <1>3, RoundTrip
<1> QED
  BY <1>1, <1>4 DEF ChildInv, ExecutesTheRequest, ChildNeverServes

\* The exec.
LEMMA ExecuteChild ==
    ASSUME ChildInv, ChildExecute
    PROVE  ChildInv'
<1> DEFINE path == Resolve(jobConfig.command, ChildCommonPaths)
<1>1. /\ child = "exec" /\ UNCHANGED <<base, pc, job, request, env, jobConfig>>
      /\ \/ child' = "exited" /\ executed' = executed
         \/ /\ path # NotFound /\ child' = "command"
            /\ executed' = [path |-> path, argv0 |-> jobConfig.command, args |-> jobConfig.args]
  BY DEF ChildExecute, ChildFails, ChildGoes, requestVars
<1>2. jobConfig.command = job.command /\ jobConfig.args = request.args /\ executed = NoExec
  BY <1>1 DEF ChildInv
<1>3. path # NotFound /\ IsAbs(job.command) => path = job.command
  <2>1. DOMAIN ChildCommonPaths \subseteq Nat
    BY DEF ChildCommonPaths, CommonPaths
  <2> QED
    BY <1>2, <2>1, ResolveFinds
<1> HIDE DEF path
<1>4. CASE child' = "exited" /\ executed' = executed
  BY <1>1, <1>2, <1>4 DEF ChildInv, ExecutesTheRequest, ChildNeverServes
<1>5. CASE /\ path # NotFound /\ child' = "command"
           /\ executed' = [path |-> path, argv0 |-> jobConfig.command, args |-> jobConfig.args]
  <2>1. ExecutesTheRequest'
    BY <1>1, <1>2, <1>3, <1>5 DEF ExecutesTheRequest, IsAbs
  <2> QED
    BY <1>1, <1>5, <2>1 DEF ChildInv, ChildNeverServes
<1> QED
  BY <1>1, <1>4, <1>5

\* The other steps of the child go one stage on.
LEMMA OtherChild ==
    ASSUME ChildInv, ChildAssign \/ MakePrivate \/ RemountProc \/ VerifyIsolation
    PROVE  ChildInv'
<1>1. /\ UNCHANGED <<base, pc, job, request, env, jobConfig, executed>>
      /\ \/ child = "assign" /\ child' \in {"load", "exited"}
         \/ child = "isolate" /\ child' \in {"exec", "remount"}
         \/ child = "remount" /\ child' \in {"verify", "exited"}
         \/ child = "verify" /\ child' = "exec"
  BY DEF ChildAssign, MakePrivate, RemountProc, VerifyIsolation, ChildGoes, ChildFails, requestVars
<1> QED
  BY <1>1 DEF ChildInv, ExecutesTheRequest, ChildNeverServes

\* The steps before the launch leave the child alone.
LEMMA EarlyChild ==
    ASSUME ChildInv, \/ Boot \/ TypeCommand \/ StartJob \/ CreateCgroup
                     \/ EditConfig \/ ChangeExecutables \/ UNCHANGED vars
    PROVE  ChildInv'
<1>1. /\ UNCHANGED <<base, env, child, jobConfig, executed>>
      /\ UNCHANGED <<pc, job, request>> \/ pc \in {"boot", "ready", "sent", "create"}
  BY DEF Boot, TypeCommand, StartJob, CreateCgroup, EditConfig, ChangeExecutables, requestVars,
         childVars, vars
<1> QED
  BY <1>1 DEF ChildInv, ExecutesTheRequest, ChildNeverServes

\* Every step keeps it.
LEMMA NextChild == Inv /\ ChildInv /\ [Next]_vars => ChildInv'
BY EarlyChild, LaunchChild, MainChild, LoadChild, ExecuteChild, OtherChild DEF Next, ChildNext

\* No job's process ever becomes a second server, for any files and environment.
THEOREM JobsNeverServe == Spec => []ChildNeverServes
<1>1. ChildInv => ChildNeverServes
  BY DEF ChildInv
<1> QED
  BY <1>1, InitChild, NextChild, Always, PTL DEF Spec

\* What the child executes is what the user asked for, through runRun, StartJob,
\* the environment and LoadConfigFromEnv, for any command line.
THEOREM RequestIsExecuted == Spec => []ExecutesTheRequest
<1>1. ChildInv => ExecutesTheRequest
  BY DEF ChildInv
<1> QED
  BY <1>1, InitChild, NextChild, Always, PTL DEF Spec

-----------------------------------------------------------------------------
(* Mounts and output *)

\* Nothing is made private before "isolate" is left, /proc is remounted after,
\* and until the command runs the output holds only what the levels allow.
IsolationInv ==
    /\ child # "none" => pc = "launched"
    /\ child \in {"none", "main", "assign", "load", "isolate"} => private = "not yet"
    /\ child = "remount" => private # "not yet"
    /\ WorkerKeepsProc
    /\ child \in {"none", "main"} => output = {}
    /\ child # "exited" /\ child \notin {"none", "main"} /\ childLogger > DEBUG =>
           /\ output \subseteq {WARN, Plain}
           /\ WARN \in output => private = "failed" \/ base.binary # "worker"
           /\ Plain \in output => LogsToFile(childCfg)

\* Init has no child.
LEMMA InitIsolation == Init => IsolationInv
BY DEF Init, IsolationInv, WorkerKeepsProc

\* A line below the level is dropped.
LEMMA DebugDropped ==
    ASSUME NEW l \in LogLevels, NEW out
    PROVE  l > DEBUG => Log(WithFields(l), DEBUG, out) = out
BY DEF Log, WithFields, LogLevels, DEBUG, ERROR

\* Every step keeps it.
LEMMA NextIsolation == TypeOK /\ TypeOK' /\ IsolationInv /\ [Next]_vars => IsolationInv'
<1> SUFFICES ASSUME TypeOK, TypeOK', IsolationInv, [Next]_vars PROVE IsolationInv'
  OBVIOUS
<1> USE DEF IsolationInv, WorkerKeepsProc
<1>0. ChildNext => pc' = pc
  BY DEF ChildNext, ChildMain, ChildAssign, ChildLoad, MakePrivate, RemountProc, VerifyIsolation,
         ChildExecute, requestVars
<1>1. CASE ~(Launch \/ ChildNext)
  <2>1. UNCHANGED <<base, childVars>> /\ (pc' = pc \/ pc # "launched")
    BY <1>1 DEF Next, requestVars, Boot, TypeCommand, StartJob, CreateCgroup, EditConfig,
              ChangeExecutables, vars
  <2> QED
    BY <2>1 DEF childVars
<1>2. CASE Launch
  <2>1. /\ pc = "launch" /\ UNCHANGED <<base, childLogger, output, private, proc>>
        /\ child' = child \/ (child' = "main" /\ pc' = "launched")
    BY <1>2 DEF Launch, ValidateLaunchConfigFails
  <2> QED
    BY <2>1
<1>3. CASE ChildMain
  <2>1. /\ child = "main" /\ UNCHANGED <<base, private, proc>>
        /\ \/ child' = "exited"
           \/ /\ child' \in {"assign", "server"}
              /\ childCfg' = LoadConfig(files, env.conf) /\ childCfg' # NoConfig
              /\ \E logging \in InitializeLogging(childCfg') :
                    output' = Log(WithFields(childLogger'), DEBUG, output \cup logging.lines)
    BY <1>3 DEF ChildMain
  <2>2. childLogger' \in LogLevels /\ output = {}
    BY <2>1 DEF TypeOK
  <2>3. CASE child' = "exited"
    BY <1>0, <1>3, <2>1, <2>3 DEF ChildNext
  <2>4. CASE child' # "exited"
    <3>1. PICK logging \in InitializeLogging(childCfg') :
              output' = Log(WithFields(childLogger'), DEBUG, output \cup logging.lines)
      BY <2>1, <2>4
    <3>2. childLogger' > DEBUG => output' = logging.lines
      BY <2>2, <3>1, DebugDropped
    <3>3. logging.lines \subseteq {Plain} /\ (logging.lines # {} => LogsToFile(childCfg'))
      BY <2>1, <2>4, <3>1, LevelLoaded, QuietLogging
    <3>4. Plain # WARN
      BY PlainIsNoLevel, Levels
    <3>5. childLogger' > DEBUG => /\ output' \subseteq {WARN, Plain} /\ WARN \notin output'
                                  /\ Plain \in output' => LogsToFile(childCfg')
      <4> SUFFICES ASSUME childLogger' > DEBUG
                   PROVE  /\ output' \subseteq {WARN, Plain} /\ WARN \notin output'
                          /\ Plain \in output' => LogsToFile(childCfg')
        OBVIOUS
      <4>1. output' = logging.lines
        BY <3>2
      <4> QED
        BY <3>3, <3>4, <4>1, Zenon
    <3>6. LogsToFile(childCfg)' = LogsToFile(childCfg')
      BY DEF LogsToFile
    <3> QED
      BY <1>0, <1>3, <2>1, <2>4, <3>5, <3>6 DEF ChildNext
  <2> QED
    BY <2>3, <2>4
<1>4. childLogger > DEBUG => Log(WithFields(childLogger), DEBUG, output) = output
  BY DebugDropped DEF TypeOK
<1>5. Log(WithFields(childLogger), WARN, output) \subseteq output \cup {WARN}
  BY DEF Log
<1>6. childCfg' = childCfg => LogsToFile(childCfg)' = LogsToFile(childCfg)
  BY DEF LogsToFile
<1>7. CASE ChildAssign \/ ChildLoad
  BY <1>0, <1>4, <1>7, <1>6 DEF ChildNext, ChildAssign, ChildLoad, ChildGoes, ChildFails
<1>8. CASE MakePrivate
  <2>1. /\ child = "isolate" /\ UNCHANGED <<base, childCfg, childLogger, proc>> /\ child' = "remount"
        /\ \/ private' = "yes" /\ output' = Log(WithFields(childLogger), DEBUG, output)
           \/ private' = "failed" /\ output' = Log(WithFields(childLogger), WARN, output)
    BY <1>8 DEF MakePrivate, ChildGoes, CreateIsolatedSysProcAttr
  <2> QED
    BY <1>0, <1>4, <1>5, <1>8, <1>6, <2>1, PlainIsNoLevel, Levels DEF ChildNext
<1>9. CASE RemountProc
  <2>1. /\ child = "remount" /\ UNCHANGED <<base, childCfg, childLogger, private>>
        /\ \/ child' = "verify" /\ output' = Log(WithFields(childLogger), DEBUG, output)
           \/ child' = "exited"
        /\ proc' \in {proc, MountProc("none"), MountProc("job")}
    BY <1>9 DEF RemountProc, ChildGoes, ChildFails
  <2>2. \A what : private = "yes" => MountProc(what)["worker"] = proc["worker"]
    BY DEF MountProc, SeenBy
  <2>3. private \in {"yes", "failed"}
    BY <2>1 DEF TypeOK
  <2>4. proc'["worker"] # "host" => private' = "failed"
    BY <2>1, <2>2, <2>3
  <2> QED
    BY <1>0, <1>4, <1>9, <1>6, <2>1, <2>4 DEF ChildNext
<1>10. CASE VerifyIsolation
  <2>1. /\ child = "verify" /\ UNCHANGED <<base, childCfg, childLogger, private, proc>> /\ child' = "exec"
        /\ \/ output' = Log(WithFields(childLogger), DEBUG, output)
           \/ /\ base.binary # "worker"
              /\ output' = Log(WithFields(childLogger), WARN, output)
    BY <1>10 DEF VerifyIsolation, ChildGoes
  <2> QED
    BY <1>0, <1>4, <1>5, <1>10, <1>6, <2>1, PlainIsNoLevel, Levels DEF ChildNext
<1>11. CASE ChildExecute
  BY <1>0, <1>4, <1>11, <1>6 DEF ChildNext, ChildExecute, ChildGoes, ChildFails
<1> QED
  BY <1>1, <1>2, <1>3, <1>7, <1>8, <1>9, <1>10, <1>11 DEF ChildNext

\* The worker's /proc is touched only after a makePrivate that failed.
THEOREM WorkerProcIsKept == Spec => []WorkerKeepsProc
<1>1. IsolationInv => WorkerKeepsProc
  BY DEF IsolationInv
<1> QED
  BY <1>1, InitIsolation, NextIsolation, TypeCorrect, PTL DEF Spec

\* Nothing of the child's own log is in the job's output when the command takes
\* over, except the two warnings and, for a log that is to go into a file, the
\* line about its directory.
THEOREM OutputIsClean == Spec => []CleanOutput
<1>1. IsolationInv => CleanOutput
  BY DEF IsolationInv, CleanOutput
<1> QED
  BY <1>1, InitIsolation, NextIsolation, TypeCorrect, PTL DEF Spec
=============================================================================
