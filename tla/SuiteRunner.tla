----------------------------- MODULE SuiteRunner ------------------------------
(***************************************************************************)
(* The two runners of the simulation tree: sim/cocotb/run.py, which finds  *)
(* the suites, builds the list of (suite, language) jobs and runs each in  *)
(* a process of its own from a pool of threads, and sim/parity/run_all.py, *)
(* which runs every proof of every module directory the same way.          *)
(*                                                                         *)
(* A test file is the set of suites it declares, or one that cannot be     *)
(* read.  Suites and modules are numbers, in the order of their names.  A  *)
(* job is a sequence of commands in one directory: one for a suite, one    *)
(* per manifest and prove_*.py for a module.  A command first writes its   *)
(* work files (the simulator build, the GHDL work library) and later gives *)
(* a verdict on those it finds there.                                      *)
(***************************************************************************)
EXTENDS Integers, Sequences, FiniteSets

CONSTANTS FileSets,   \* sequences of test files to try: [suites, readable]
          NameLists,  \* command lines to try: the names given, in order
          NoVhdl,     \* suites with skip_vhdl
          VhdlOf,     \* <<a, b>>: suite a is named "vhdl_" and the name of b
          Modules,    \* module directories with manifests
          Proofs,     \* commands of a module directory
          MaxJobs     \* largest -j

VARIABLES pc, runner, files, named, hdls, workers,
          looked,     \* files discover has gone through
          suites,     \* <<name, test file>>
          broken,     \* files that were reported and skipped
          todo,       \* names to run, in order
          at, lang,   \* the place in them, and in the languages, of the next job
          jobs, skipped,
          started,    \* jobs given to a thread so far
          owner,      \* job -> the job whose files are in its directory, 0 for none
          busy,       \* jobs between writing their files and their verdict
          codes,      \* job -> return codes of its commands, and whose files they judge
          raised,     \* jobs whose process could not be started
          results     \* jobs whose result main has taken, in order

asked  == <<runner, files, named, hdls, workers>>
found  == <<looked, suites, broken>>
listed == <<todo, at, lang, jobs, skipped>>
ran    == <<started, owner, busy, codes, raised, results>>
vars   == <<pc, asked, found, listed, ran>>

Elements(s) == {s[k] : k \in DOMAIN s}

Init == /\ pc = "main" /\ runner = "cocotb" /\ files = <<>> /\ named = <<>>
        /\ hdls = <<"verilog">> /\ workers = 1
        /\ looked = 0 /\ suites = {} /\ broken = {}
        /\ todo = <<>> /\ at = 1 /\ lang = 1 /\ jobs = <<>> /\ skipped = {}
        /\ started = 0 /\ owner = <<>> /\ busy = {} /\ codes = <<>>
        /\ raised = {} /\ results = 0

-----------------------------------------------------------------------------
(* The command line: the names may repeat, -j may be zero. *)
Main(fs, names, hs, j) ==
  /\ pc = "main"
  /\ runner' = "cocotb" /\ files' = fs /\ named' = names /\ hdls' = hs /\ workers' = j
  /\ pc' = "discover"
  /\ UNCHANGED <<found, listed, ran>>

MainParity(names, j) ==
  /\ pc = "main"
  /\ runner' = "parity" /\ named' = names /\ hdls' = <<"both">> /\ workers' = j
  /\ pc' = "discover"
  /\ UNCHANGED <<files, found, listed, ran>>

(* Mutant: a suite declared twice is the later file's. *)
TakeFileTwice ==
  /\ pc = "discover" /\ looked < Len(files)
  /\ looked' = looked + 1
  /\ LET f == files[looked']
     IN IF ~f.readable
        THEN broken' = broken \cup {looked'} /\ UNCHANGED suites
        ELSE /\ suites' = {p \in suites : p[1] \notin f.suites} \cup (f.suites \X {looked'})
             /\ UNCHANGED broken
  /\ UNCHANGED <<pc, asked, listed, ran>>

(* discover, one file: a file that cannot be read, or that declares a suite *)
(* of an earlier one, is reported and skipped as a whole.                   *)
TakeFile ==
  /\ pc = "discover" /\ looked < Len(files)
  /\ looked' = looked + 1
  /\ LET f == files[looked']
     IN IF ~f.readable \/ \E p \in suites : p[1] \in f.suites
        THEN broken' = broken \cup {looked'} /\ UNCHANGED suites
        ELSE suites' = suites \cup (f.suites \X {looked'}) /\ UNCHANGED broken
  /\ UNCHANGED <<pc, asked, listed, ran>>

(* The names there are: of the suites, of the directories with manifests. *)
Known == IF runner = "cocotb" THEN {p[1] : p \in suites} ELSE Modules

(* sorted: the k-th of S has k names up to it. *)
Rank(S, n) == Cardinality({m \in S : m <= n})
Sorted(S)  == [k \in 1 .. Cardinality(S) |-> CHOOSE n \in S : Rank(S, n) = k]

(* An unknown name is refused; without names, all are run. *)
Parse == /\ pc = "discover" /\ looked = Len(files)
         /\ IF Elements(named) \subseteq Known
            THEN pc' = "list" /\ todo' = (IF named = <<>> THEN Sorted(Known) ELSE named)
            ELSE pc' = "exit2" /\ UNCHANGED todo
         /\ UNCHANGED <<asked, found, at, lang, jobs, skipped, ran>>

(* One (name, language): a job, unless the suite has no VHDL run. *)
ListJob ==
  /\ pc = "list" /\ at <= Len(todo)
  /\ LET n == todo[at]
         h == hdls[lang]
     IN IF h = "vhdl" /\ n \in NoVhdl
        THEN skipped' = skipped \cup {n} /\ UNCHANGED jobs
        ELSE jobs' = Append(jobs, <<n, h>>) /\ UNCHANGED skipped
  /\ IF lang = Len(hdls) THEN lang' = 1 /\ at' = at + 1
                         ELSE lang' = lang + 1 /\ UNCHANGED at
  /\ UNCHANGED <<pc, asked, found, todo, ran>>

(* A single job runs in this process, if there is but one to run at a time. *)
Begin == /\ pc = "list" /\ at > Len(todo)
         /\ pc' = IF runner = "cocotb" /\ Len(jobs) = 1 /\ workers <= 1 THEN "single" ELSE "pool"
         /\ codes' = [i \in DOMAIN jobs |-> <<>>] /\ owner' = [i \in DOMAIN jobs |-> 0]
         /\ UNCHANGED <<asked, found, listed, started, busy, raised, results>>

(* run_one in this process; a build that fails raises. *)
RunSingle == /\ pc = "single"
             /\ \E rc \in 0 .. 1 : codes' = <<<<[rc |-> rc, of |-> 1]>>>>
             /\ started' = 1 /\ results' = 1
             /\ pc' = "report"
             /\ UNCHANGED <<asked, found, listed, owner, busy, raised>>

-----------------------------------------------------------------------------
(* build_dir of run_one, and the directory a module's proofs run in. *)
Directory(i) == LET n == jobs[i][1]
                IN IF jobs[i][2] # "vhdl" THEN <<"", n>>
                   ELSE IF \E p \in VhdlOf : p[2] = n
                        THEN <<"", (CHOOSE p \in VhdlOf : p[2] = n)[1]>>
                   ELSE <<"vhdl_", n>>

Commands == IF runner = "cocotb" THEN 1 ELSE Proofs
Over(i)  == i \in raised \/ Len(codes[i]) = Commands
Running  == {i \in 1 .. started : ~Over(i)}
PoolFree == Cardinality(Running) < workers \/ Running = {}

(* A thread of the pool takes the next job. *)
Start == /\ pc = "pool" /\ started < Len(jobs)
         /\ PoolFree
         /\ started' = started + 1
         /\ UNCHANGED <<pc, asked, found, listed, owner, busy, codes, raised, results>>

(* It runs the commands one after another, all of them whatever they return. *)
Build(i) == /\ pc \in {"pool", "leaving"} /\ i \in Running \ busy
            /\ owner' = [k \in DOMAIN jobs |-> IF Directory(k) = Directory(i) THEN i ELSE owner[k]]
            /\ busy' = busy \cup {i}
            /\ UNCHANGED <<pc, asked, found, listed, started, codes, raised, results>>

Judge(i) == /\ pc \in {"pool", "leaving"} /\ i \in busy
            /\ \E rc \in 0 .. 1 :
                 codes' = [codes EXCEPT ![i] = Append(@, [rc |-> rc, of |-> owner[i]])]
            /\ busy' = busy \ {i}
            /\ UNCHANGED <<pc, asked, found, listed, started, owner, raised, results>>

(* A process that cannot be started raises in its thread, which is free for *)
(* the next job; main does not know yet.                                    *)
CannotStart(i) == /\ pc \in {"pool", "leaving"} /\ i \in Running \ busy
                  /\ raised' = raised \cup {i}
                  /\ UNCHANGED <<pc, asked, found, listed, started, owner, busy, codes, results>>

(* pool.map hands the results over in the order of the jobs. *)
Collect == /\ pc = "pool" /\ results < started /\ results + 1 \notin raised
           /\ Over(results + 1)
           /\ results' = results + 1
           /\ UNCHANGED <<pc, asked, found, listed, started, owner, busy, codes, raised>>

(* A result that is an exception ends main: what no thread has taken yet is *)
(* cancelled, and main leaves once the threads are done.                    *)
CollectRaised == /\ pc = "pool" /\ results + 1 \in raised
                 /\ pc' = "leaving"
                 /\ UNCHANGED <<asked, found, listed, ran>>

Leave == /\ pc = "leaving" /\ Running = {}
         /\ pc' = "exit1"
         /\ UNCHANGED <<asked, found, listed, ran>>

AllCollected == /\ pc = "pool" /\ results = Len(jobs)
                /\ pc' = "report"
                /\ UNCHANGED <<asked, found, listed, ran>>

(* A job failed if any of its commands did. *)
Failed(i) == \E k \in DOMAIN codes[i] : codes[i][k].rc # 0

(* broken_fails *)
BrokenFails == broken # {} /\ named = <<>>

Report == /\ pc = "report"
          /\ pc' = IF (\E i \in DOMAIN jobs : Failed(i)) \/ BrokenFails THEN "exit1" ELSE "exit0"
          /\ UNCHANGED <<asked, found, listed, ran>>

Hdls == {<<"verilog">>, <<"vhdl">>, <<"verilog", "vhdl">>}

Next == \/ \E fs \in FileSets, names \in NameLists, hs \in Hdls, j \in 0 .. MaxJobs :
             Main(fs, names, hs, j)
        \/ \E names \in NameLists, j \in 0 .. MaxJobs : MainParity(names, j)
        \/ TakeFile \/ Parse \/ ListJob \/ Begin
        \/ RunSingle \/ Start \/ Collect \/ CollectRaised \/ Leave \/ AllCollected \/ Report
        \/ \E i \in DOMAIN jobs : Build(i) \/ Judge(i) \/ CannotStart(i)

Spec == Init /\ [][Next]_vars

-----------------------------------------------------------------------------
(* What is to run: the names given; or all of the files, or all modules. *)
Wanted == IF named # <<>> THEN Elements(named)
          ELSE IF runner = "parity" THEN Modules
          ELSE UNION {files[f].suites : f \in DOMAIN files}

Declared == UNION {files[f].suites \X {f} : f \in DOMAIN files}

(* Nothing that runs at the same time can meet in a directory: no name was  *)
(* given twice, and no suite runs in Verilog under the name that another    *)
(* one's VHDL build has.                                                    *)
Apart == /\ \A k, l \in DOMAIN named : k # l => named[k] # named[l]
         /\ \A p \in VhdlOf : ~({<<p[1], "verilog">>, <<p[2], "vhdl">>} \subseteq Elements(jobs))

(* A green run ran everything.  Exit code 0 means that every suite asked    *)
(* for, or in a full run every suite of every test file, was run in every   *)
(* language asked for, or is one whose VHDL run is skipped and was listed   *)
(* so, and that each command of each job returned 0; in a full run each     *)
(* suite was moreover the one of the file that declares it.  Exit code 1    *)
(* has one of these for a reason, or a process that could not start.  The   *)
(* runner leaves no process behind.  And every verdict is on the files the  *)
(* job itself wrote: always when one job runs at a time, and with a pool    *)
(* when the names given are Apart; the runner does not check that they are, *)
(* so with a name given twice a verdict may be on half of another build     *)
(* (run.py 67-93, 129-169, 199-268; run_all.py 33-96).                      *)
GreenMeansAllRan ==
  /\ pc = "exit0" =>
       /\ \A n \in Wanted, h \in Elements(hdls) :
            \/ \E i \in DOMAIN jobs : jobs[i] = <<n, h>>
            \/ h = "vhdl" /\ n \in NoVhdl \cap skipped
       /\ \A i \in DOMAIN jobs : /\ Len(codes[i]) = Commands
                                 /\ \A k \in 1 .. Commands : codes[i][k].rc = 0
       /\ (named = <<>> /\ runner = "cocotb") => suites = Declared
  /\ pc = "exit1" => \/ \E i \in DOMAIN jobs : Failed(i) \/ i \in raised
                     \/ named = <<>> /\ broken # {}
  /\ pc \in {"exit0", "exit1", "exit2"} => Running = {}
  /\ (workers <= 1 \/ Apart) => \A i \in DOMAIN codes : \A k \in DOMAIN codes[i] : codes[i][k].of = i
=============================================================================
