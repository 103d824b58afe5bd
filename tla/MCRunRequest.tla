---------------------------- MODULE MCRunRequest ----------------------------
(* A small instance of RunRequest. *)
EXTENDS RunRequest

Word(text)  == [kind |-> "word", text |-> text, val |-> 0]
Flag(l, v)  == [kind |-> l, text |-> "--max", val |-> v]
UnknownFlag == [kind |-> "unknown", text |-> "--server", val |-> 0]

mcFileLists ==
    { <<AbsentFile, AbsentFile>>,
      <<AbsentFile, BrokenFile>>,
      <<File([Mode |-> "server", CPULimit |-> 50, Level |-> "DEBUG",
              Controllers |-> {"memory", "cpu"}]), BrokenFile>>,
      <<AbsentFile, File([Mode |-> "init", Level |-> "error", Output |-> ""])>>,
      <<File([IOLimit |-> 7, MemoryLimit |-> 0, Level |-> "warn",
              Output |-> "file"]), AbsentFile>>,
      <<File([MaxJobs |-> 0]), AbsentFile>> }

NoArgs == <<>>

mcBaseEnvs ==
    { [binary |-> "worker", conf |-> <<>>,
       id |-> "", command |-> "", count |-> 0, arg |-> NoArgs],
      [binary |-> "worker", conf |-> [Mode |-> "server", CPULimit |-> Junk, Level |-> "INFO"],
       id |-> "9", command |-> "/old", count |-> 2, arg |-> [i \in 0 .. 1 |-> "old"]],
      [binary |-> "jobs",
       conf |-> [IOLimit |-> -1, MemoryLimit |-> 5, Controllers |-> {"cpu", " memory", "io"}],
       id |-> "", command |-> "", count |-> 0, arg |-> NoArgs] }

mcArgvs ==
    { <<Word("./rel"), Word("a")>>,
      <<Word("/abs/c"), Word("a"), Word("b")>>,
      <<Word("/abs/c"), Word("a"), Word("b"), Word("c")>>,
      <<Flag("cpu", 10), Flag("cpu", 30), Word("name"), Flag("cpu", 20)>>,
      <<Flag("mem", 100), Flag("mem", Junk), Flag("io", -3), Word("name")>>,
      <<Flag("io", 9), Flag("cpu", 0), Word("/abs/c")>>,
      <<Flag("cpu", 10), Flag("mem", 1)>>,
      <<Flag("cpu", 10), UnknownFlag, Word("name")>>,
      <<Word("dangerous")>>,
      <<Word("name"), Word("null byte")>> }

mcExecutables ==
    {"/abs/c", "./rel", "/opt/bin/c", "/usr/bin/c", "/usr/local/sbin/c"}

mcAvailable == {{}, {"cpu", "memory", "io"}}

mcMissing == {{}, {"cpu.max"}}

mcRefused ==
    { {}, {"cpu.max", "memory.high", "io.rbps"}, {"memory.max", "io.rbps", "io.wbps"},
      IOBytes \cup {"cpu.weight"} }
=============================================================================
