--------------------------- MODULE WorkbenchProofs ---------------------------
(***************************************************************************)
(* Proofs about Workbench, whatever the documents are and for any number   *)
(* of jobs.  Of the page: IInv is inductive together with PageTypeOK, and  *)
(* from it the page is busy with one job at a time and leaks no URL.  Of   *)
(* the engine: each operation does to the pages shown what PageList says.  *)
(* Of both: the document that goes from job to job stays sound, and its    *)
(* pages are those of PageList.                                            *)
(***************************************************************************)
EXTENDS Workbench, PdfPagesProofs

LEMMA Bounds == MaxJobs \in Nat /\ MaxFaults \in Nat /\ MaxRequests \in Nat
BY BoundAssumption, RequestsAssumption

-----------------------------------------------------------------------------
(* What steps do to the page *)

JobType == [operation : Offered, files : 1 .. 2, since : 0 .. MaxRequests, phase : Phases]

\* An operation of the engine counts its request, and leaves the page alone.
LEMMA AnswerCounts ==
    ASSUME NEW r, NEW d, NEW h, Answer(r, d, h) PROVE requests' = requests + 1
BY DEF Answer

LEMMA WorkCounts ==
    ASSUME NEW job, Work(job) PROVE requests' = requests + 1
<1>1. ASSUME NEW docs, NEW r, Merge(docs, r) PROVE requests' = requests + 1
  BY <1>1, AnswerCounts DEF Merge, MergeOf, Combine, Output
<1>2. CASE Edit
  <2>1. ASSUME NEW ranges, NEW angle, Rotate(ranges, angle) PROVE requests' = requests + 1
    BY <2>1, AnswerCounts DEF Rotate
  <2>2. ASSUME NEW ranges, NEW box, Crop(ranges, box) PROVE requests' = requests + 1
    BY <2>2, AnswerCounts DEF Crop
  <2>3. ASSUME NEW ranges, NEW mark, Watermark(ranges, mark) PROVE requests' = requests + 1
    BY <2>3, AnswerCounts DEF Watermark
  <2>4. CASE Flatten
    BY <2>4, AnswerCounts DEF Flatten
  <2>5. ASSUME NEW order, Reorder(order) PROVE requests' = requests + 1
    BY <2>5, AnswerCounts DEF Reorder
  <2>. QED
    BY <1>2, <2>1, <2>2, <2>3, <2>4, <2>5 DEF Edit
<1>3. ASSUME NEW range, Split(range) PROVE requests' = requests + 1
  BY <1>3, AnswerCounts DEF Split
<1>4. CASE MergeAlone
  BY <1>1, <1>4 DEF MergeAlone
<1>5. ASSUME NEW other, NEW before, MergeWith(other, before) PROVE requests' = requests + 1
  BY <1>1, <1>5 DEF MergeWith
<1>. QED
  BY <1>2, <1>3, <1>4, <1>5 DEF Work

\* Job j, if it is still there, is what it was, in its new phase.
LEMMA ToEffect ==
    ASSUME PageTypeOK, NEW j \in DOMAIN jobs, NEW phase \in Phases, To(j, phase)
    PROVE  /\ DOMAIN jobs' = DOMAIN jobs
           /\ jobs'[j].phase = phase /\ jobs'[j] \in JobType
           /\ \A i \in DOMAIN jobs \ {j} : jobs'[i] = jobs[i]
<1>1. jobs[j] \in JobType
  BY DEF PageTypeOK, JobType
<1>2. jobs' = [jobs EXCEPT ![j].phase = phase]
  BY DEF To
<1>3. DOMAIN jobs' = DOMAIN jobs /\ \A i \in DOMAIN jobs \ {j} : jobs'[i] = jobs[i]
  BY <1>2
<1>4. jobs'[j] = [jobs[j] EXCEPT !.phase = phase]
  BY <1>2
<1>. QED
  BY <1>1, <1>3, <1>4 DEF JobType

\* The job that is over is gone, the others are what they were.
LEMMA OverEffect ==
    ASSUME NEW j, Over(j)
    PROVE  /\ DOMAIN jobs' = DOMAIN jobs \ {j}
           /\ \A i \in DOMAIN jobs \ {j} : jobs'[i] = jobs[i]
BY DEF Over

\* Neither makes a job of another type.
LEMMA OverKeepsTypes ==
    ASSUME PageTypeOK, NEW j, Over(j)
    PROVE  /\ DOMAIN jobs' \subseteq 1 .. begun
           /\ \A i \in DOMAIN jobs' : jobs'[i] \in JobType
BY OverEffect DEF PageTypeOK, JobType

LEMMA ToKeepsTypes ==
    ASSUME PageTypeOK, NEW j \in DOMAIN jobs, NEW phase \in Phases, To(j, phase)
    PROVE  /\ DOMAIN jobs' \subseteq 1 .. begun
           /\ \A i \in DOMAIN jobs' : jobs'[i] \in JobType
<1>1. \A i \in DOMAIN jobs : jobs[i] \in JobType
  BY DEF PageTypeOK, JobType
<1>2. DOMAIN jobs \subseteq 1 .. begun
  BY DEF PageTypeOK
<1>. QED
  BY <1>1, <1>2, ToEffect

\* A fault is counted, and only so many are made.
LEMMA FaultCounts ==
    ASSUME PageTypeOK, Fault
    PROVE  faults' = faults + 1 /\ faults' \in 0 .. MaxFaults
BY Bounds DEF PageTypeOK, Fault

\* What an answer offers is what its job can bring.
LEMMA OutputsType ==
    ASSUME NEW j \in 1 .. MaxJobs PROVE Outputs(j) \subseteq (1 .. MaxJobs) \X (1 .. 2)
<1>1. ASSUME NEW n \in 1 .. (IF jobs[j].operation = "split" THEN 2 ELSE 1) PROVE n \in 1 .. 2
  BY <1>1
<1>. QED
  BY <1>1 DEF Outputs

-----------------------------------------------------------------------------
(* The types of the page *)

LEMMA TypeStart == Start => PageTypeOK
<1>. SUFFICES ASSUME Start PROVE PageTypeOK
  OBVIOUS
<1>1. DOMAIN jobs = {}
  BY DEF Start
<1>2. requests = 0
  BY DEF Start, Init
<1>3. 0 \in 0 .. MaxJobs /\ 0 \in 0 .. MaxFaults /\ 0 \in 0 .. MaxRequests
  BY Bounds
<1>4. operation \in Offered /\ files \in 0 .. 2
  BY DEF Start, Offered
<1>5. {busy, error} \subseteq BOOLEAN
  BY Zenon DEF Start
<1>6. downloads \subseteq urls /\ urls = {}
  BY DEF Start
<1>7. urls \subseteq (1 .. MaxJobs) \X (1 .. 2)
  BY <1>6
<1>8. begun = 0 /\ faults = 0
  BY DEF Start
<1>. QED
  BY <1>1, <1>2, <1>3, <1>4, <1>5, <1>6, <1>7, <1>8 DEF PageTypeOK

LEMMA TypeForm ==
    ASSUME PageTypeOK,
           \/ \E choice \in Offered : ChangeOperation(choice)
           \/ \E n \in 0 .. 2 : ChooseFiles(n)
           \/ Mistake
    PROVE  PageTypeOK'
<1>1. CASE \E choice \in Offered : ChangeOperation(choice)
  BY <1>1 DEF PageTypeOK, ChangeOperation, vars
<1>2. CASE \E n \in 0 .. 2 : ChooseFiles(n)
  BY <1>2 DEF PageTypeOK, ChooseFiles, vars
<1>3. CASE Mistake
  BY <1>3 DEF PageTypeOK, Mistake, vars
<1>. QED
  BY <1>1, <1>2, <1>3

\* A new job has a number of its own.
LEMMA ProcessEffect ==
    ASSUME PageTypeOK, Process
    PROVE  /\ begun' = begun + 1 /\ begun' \in 0 .. MaxJobs
           /\ begun' \notin DOMAIN jobs
           /\ DOMAIN jobs' = DOMAIN jobs \cup {begun'}
           /\ jobs'[begun'] \in JobType /\ jobs'[begun'].phase = "reading"
           /\ \A i \in DOMAIN jobs : jobs'[i] = jobs[i]
<1>. DEFINE job == [operation |-> operation, files |-> files,
                    since |-> requests, phase |-> "reading"]
<1>1. begun' = begun + 1 /\ jobs' = [j \in DOMAIN jobs \cup {begun'} |-> IF j = begun' THEN job ELSE jobs[j]]
  BY DEF Process
<1>2. begun \in 0 .. MaxJobs /\ begun < MaxJobs /\ DOMAIN jobs \subseteq 1 .. begun
  BY DEF Process, PageTypeOK, Goes
<1>3. begun' \in 0 .. MaxJobs /\ begun' \notin DOMAIN jobs
  BY <1>1, <1>2, Bounds
<1>4. job \in JobType
  BY DEF JobType, Process, PageTypeOK, Phases
<1>. HIDE DEF job
<1>5. /\ DOMAIN jobs' = DOMAIN jobs \cup {begun'}
      /\ jobs'[begun'] = job
      /\ \A i \in DOMAIN jobs : jobs'[i] = jobs[i]
  BY <1>1, <1>3
<1>6. job.phase = "reading"
  BY DEF job
<1>. QED
  BY <1>1, <1>3, <1>4, <1>5, <1>6

LEMMA TypeProcess ==
    ASSUME PageTypeOK, Process PROVE PageTypeOK'
<1>1. DOMAIN jobs' \subseteq 1 .. begun' /\ \A i \in DOMAIN jobs' : jobs'[i] \in JobType
  <2>1. DOMAIN jobs \subseteq 1 .. begun /\ \A i \in DOMAIN jobs : jobs[i] \in JobType
    BY DEF PageTypeOK, JobType
  <2>2. begun' \in 1 .. begun' /\ 1 .. begun \subseteq 1 .. begun'
    BY ProcessEffect DEF PageTypeOK
  <2>. QED
    BY <2>1, <2>2, ProcessEffect
<1>2. /\ operation' \in Offered /\ files' \in 0 .. 2
      /\ {busy', error'} \subseteq BOOLEAN
      /\ downloads' \subseteq urls' /\ urls' \subseteq (1 .. MaxJobs) \X (1 .. 2)
      /\ faults' \in 0 .. MaxFaults /\ requests' \in 0 .. MaxRequests
  BY DEF Process, PageTypeOK, vars
<1>. QED
  BY <1>1, <1>2, ProcessEffect DEF PageTypeOK, JobType

LEMMA TypeAnswer ==
    ASSUME PageTypeOK, NEW j \in DOMAIN jobs, OnAnswer(j) PROVE PageTypeOK'
<1>1. DOMAIN jobs' \subseteq 1 .. begun /\ \A i \in DOMAIN jobs' : jobs'[i] \in JobType
  BY OverKeepsTypes DEF OnAnswer
<1>2. faults' \in 0 .. MaxFaults
  BY FaultCounts DEF OnAnswer, PageTypeOK
<1>3. downloads' \subseteq urls' /\ urls' \subseteq (1 .. MaxJobs) \X (1 .. 2)
  <2>1. j \in 1 .. MaxJobs
    BY Bounds DEF PageTypeOK
  <2>2. PICK made \in SUBSET Outputs(j) : downloads' = made /\ urls' = urls \cup made
    BY DEF OnAnswer
  <2>. QED
    BY <2>1, <2>2, OutputsType DEF PageTypeOK
<1>4. busy' = FALSE /\ error' \in BOOLEAN
  BY DEF OnAnswer
<1>5. UNCHANGED <<operation, files, begun, requests>>
  BY DEF OnAnswer, Forget
<1>. QED
  BY <1>1, <1>2, <1>3, <1>4, <1>5 DEF PageTypeOK, JobType

\* The steps that end a job without an answer, or change nothing but its phase.
LEMMA TypeJob ==
    ASSUME PageTypeOK, NEW j \in DOMAIN jobs,
           \/ NotStarted(j) \/ Post(j) \/ PostFails(j) \/ OnRefusal(j)
           \/ Refuse(j) \/ FallSilent(j) \/ NotLoaded(j)
    PROVE  PageTypeOK'
<1>1. DOMAIN jobs' \subseteq 1 .. begun /\ \A i \in DOMAIN jobs' : jobs'[i] \in JobType
  <2>1. CASE NotStarted(j) \/ OnRefusal(j)
    BY <2>1, OverKeepsTypes DEF NotStarted, OnRefusal
  <2>2. CASE \/ Post(j) \/ PostFails(j) \/ Refuse(j) \/ FallSilent(j) \/ NotLoaded(j)
    <3>1. \E phase \in Phases : To(j, phase)
      BY <2>2 DEF Post, PostFails, Refuse, FallSilent, NotLoaded, Phases
    <3>. QED
      BY <3>1, ToKeepsTypes
  <2>. QED
    BY <2>1, <2>2
<1>2. faults' \in 0 .. MaxFaults
  BY FaultCounts DEF NotStarted, Post, PostFails, OnRefusal, Refuse, FallSilent, NotLoaded, PageTypeOK
<1>3. {busy', error'} \subseteq BOOLEAN
  BY DEF NotStarted, Post, PostFails, OnRefusal, Refuse, FallSilent, NotLoaded, GiveUp, PageTypeOK
<1>4. UNCHANGED <<vars, operation, files, downloads, urls, begun>>
  BY DEF NotStarted, Post, PostFails, OnRefusal, Refuse, FallSilent, NotLoaded, GiveUp
<1>. QED
  BY <1>1, <1>2, <1>3, <1>4 DEF PageTypeOK, JobType, vars

LEMMA TypeSucceed ==
    ASSUME PageTypeOK, NEW j \in DOMAIN jobs, Succeed(j) PROVE PageTypeOK'
<1>1. DOMAIN jobs' \subseteq 1 .. begun /\ \A i \in DOMAIN jobs' : jobs'[i] \in JobType
  BY ToKeepsTypes DEF Succeed, Phases
<1>2. UNCHANGED <<operation, files, busy, error, downloads, urls, begun, faults>>
  BY DEF Succeed
<1>3. requests' \in 0 .. MaxRequests
  <2>1. CASE Followed(jobs[j])
    <3>1. requests' = requests + 1
      BY <2>1, WorkCounts DEF Succeed
    <3>2. requests < MaxRequests
      BY <2>1 DEF Followed, Useful
    <3>. QED
      BY <3>1, <3>2, Bounds DEF PageTypeOK
  <2>2. CASE ~Followed(jobs[j])
    BY <2>2 DEF Succeed, PageTypeOK, vars
  <2>. QED
    BY <2>1, <2>2
<1>. QED
  BY <1>1, <1>2, <1>3 DEF PageTypeOK, JobType

LEMMA TypeStep == PageTypeOK /\ [Step]_allVars => PageTypeOK'
<1>. SUFFICES ASSUME PageTypeOK, [Step]_allVars PROVE PageTypeOK'
  OBVIOUS
<1>1. CASE UNCHANGED allVars
  BY <1>1 DEF allVars, pageVars, vars, PageTypeOK
<1>2. CASE Step
  BY <1>2, TypeForm, TypeProcess, TypeAnswer, TypeJob, TypeSucceed DEF Step
<1>. QED
  BY <1>1, <1>2

-----------------------------------------------------------------------------
(* The jobs that run *)

LEMMA RunningOver == ASSUME NEW j, Over(j) PROVE Running' = Running \ {j}
BY OverEffect DEF Running

LEMMA RunningTo ==
    ASSUME PageTypeOK, NEW j \in DOMAIN jobs, NEW phase \in Phases, To(j, phase)
    PROVE  Running' = IF phase = "unposted" THEN Running \ {j} ELSE Running \cup {j}
BY ToEffect DEF Running

\* Until the second fault a job that runs is the only one, and has the page to
\* itself.
LEMMA RunsAlone ==
    ASSUME PageTypeOK, IInv, faults < 2, NEW j \in DOMAIN jobs, jobs[j].phase # "unposted"
    PROVE  busy /\ Running = {j} /\ downloads = {} /\ urls = {}
<1>1. j \in Running
  BY DEF Running
<1>2. /\ busy => downloads = {} /\ \E i \in DOMAIN jobs : Running = {i}
      /\ ~busy => Running = {}
      /\ urls = downloads
  BY DEF IInv, BusyInv, NoUrlLeaks
<1>. QED
  BY <1>1, <1>2

\* Faults are never forgotten.
LEMMA FaultsGrow ==
    ASSUME PageTypeOK, [Step]_allVars
    PROVE  faults' = faults \/ faults' = faults + 1
<1>1. CASE UNCHANGED allVars
  BY <1>1 DEF allVars, pageVars
<1>2. CASE \/ \E choice \in Offered : ChangeOperation(choice)
           \/ \E n \in 0 .. 2 : ChooseFiles(n)
           \/ Mistake
           \/ Process
  BY <1>2 DEF ChangeOperation, ChooseFiles, Mistake, Process
<1>3. ASSUME NEW j \in DOMAIN jobs,
             \/ NotStarted(j) \/ Post(j) \/ PostFails(j) \/ OnAnswer(j) \/ OnRefusal(j)
             \/ Succeed(j) \/ Refuse(j) \/ FallSilent(j) \/ NotLoaded(j)
      PROVE  faults' = faults \/ faults' = faults + 1
  BY <1>3, FaultCounts
     DEF NotStarted, Post, PostFails, OnAnswer, OnRefusal, Succeed, Refuse, FallSilent, NotLoaded
<1>. QED
  BY <1>1, <1>2, <1>3 DEF Step

-----------------------------------------------------------------------------
(* The invariant *)

LEMMA InvStart == Start => IInv
<1>. SUFFICES ASSUME Start PROVE IInv
  OBVIOUS
<1>1. DOMAIN jobs = {} /\ busy = FALSE /\ urls = downloads
  BY DEF Start
<1>2. Running = {}
  BY <1>1 DEF Running
<1>. QED
  BY <1>1, <1>2 DEF IInv, UnpostedInv, BusyInv, NoUrlLeaks

\* Steps of the user on the page, which is not busy.
LEMMA InvForm ==
    ASSUME PageTypeOK, IInv,
           \/ \E choice \in Offered : ChangeOperation(choice)
           \/ \E n \in 0 .. 2 : ChooseFiles(n)
           \/ Mistake
    PROVE  IInv'
<1>1. ~busy /\ UNCHANGED <<busy, jobs, faults>>
  BY DEF ChangeOperation, ChooseFiles, Mistake
<1>2. faults < 2 => urls' = downloads'
  BY DEF ChangeOperation, ChooseFiles, Mistake, IInv, NoUrlLeaks
<1>3. Running' = Running
  BY <1>1 DEF Running
<1>4. UnpostedInv'
  BY <1>1 DEF IInv, UnpostedInv
<1>5. BusyInv'
  BY <1>1, <1>3 DEF IInv, BusyInv
<1>6. NoUrlLeaks'
  BY <1>1, <1>2 DEF NoUrlLeaks
<1>. QED
  BY <1>4, <1>5, <1>6 DEF IInv

LEMMA InvProcess ==
    ASSUME PageTypeOK, IInv, Process PROVE IInv'
<1>1. /\ ~busy /\ busy' = TRUE /\ downloads' = {} /\ urls' = urls \ downloads
      /\ faults' = faults
  BY DEF Process
<1>2. Running' = Running \cup {begun'}
  BY ProcessEffect DEF Running
<1>3. faults < 2 => Running = {} /\ urls = downloads
  BY <1>1 DEF IInv, BusyInv, NoUrlLeaks
<1>4. UnpostedInv'
  BY <1>1, ProcessEffect DEF IInv, UnpostedInv
<1>5. BusyInv'
  <2>1. faults < 2 => Running' = {begun'} /\ begun' \in DOMAIN jobs'
    BY <1>2, <1>3, ProcessEffect
  <2>. QED
    BY <1>1, <2>1 DEF BusyInv
<1>6. NoUrlLeaks'
  BY <1>1, <1>3 DEF NoUrlLeaks
<1>. QED
  BY <1>4, <1>5, <1>6 DEF IInv

\* A job that runs is over, or is given up: the page waits for none.
LEMMA InvEnds ==
    ASSUME PageTypeOK, IInv, [Step]_allVars, NEW j \in DOMAIN jobs,
           jobs[j].phase # "unposted", busy' = FALSE,
           Running' = Running \ {j}, UnpostedInv', faults < 2 => urls' = downloads'
    PROVE  IInv'
<1>1. faults' < 2 => faults < 2
  BY FaultsGrow DEF PageTypeOK
<1>2. faults < 2 => Running' = {}
  BY RunsAlone
<1>3. BusyInv'
  BY <1>1, <1>2 DEF BusyInv
<1>4. NoUrlLeaks'
  BY <1>1 DEF NoUrlLeaks
<1>. QED
  BY <1>3, <1>4 DEF IInv

\* A job that runs goes on: the page waits for it as before.
LEMMA InvGoesOn ==
    ASSUME PageTypeOK, IInv, [Step]_allVars, NEW j \in DOMAIN jobs, NEW phase \in Phases,
           jobs[j].phase # "unposted", phase # "unposted", To(j, phase),
           UNCHANGED <<busy, downloads, urls>>
    PROVE  IInv'
<1>1. faults' < 2 => faults < 2
  BY FaultsGrow DEF PageTypeOK
<1>2. Running' = Running
  <2>1. j \in Running
    BY DEF Running
  <2>. QED
    BY <2>1, RunningTo
<1>3. DOMAIN jobs' = DOMAIN jobs
  BY ToEffect
<1>4. UnpostedInv'
  <2>1. faults' = 0 => faults = 0
    BY FaultsGrow DEF PageTypeOK
  <2>. QED
    BY <2>1, ToEffect DEF IInv, UnpostedInv
<1>5. BusyInv'
  BY <1>1, <1>2, <1>3 DEF IInv, BusyInv
<1>6. NoUrlLeaks'
  BY <1>1 DEF IInv, NoUrlLeaks
<1>. QED
  BY <1>4, <1>5, <1>6 DEF IInv

\* What is over is not an unposted job.
LEMMA UnpostedOver ==
    ASSUME PageTypeOK, IInv, [Step]_allVars, NEW j, Over(j) PROVE UnpostedInv'
<1>1. faults' = 0 => faults = 0
  BY FaultsGrow DEF PageTypeOK
<1>. QED
  BY <1>1, OverEffect DEF IInv, UnpostedInv

LEMMA InvJob ==
    ASSUME PageTypeOK, IInv, [Step]_allVars, NEW j \in DOMAIN jobs,
           \/ NotStarted(j) \/ Post(j) \/ PostFails(j) \/ OnAnswer(j) \/ OnRefusal(j)
           \/ Succeed(j) \/ Refuse(j) \/ FallSilent(j) \/ NotLoaded(j)
    PROVE  IInv'
<1>. DEFINE Leaks == faults < 2 => urls = downloads
<1>0. Leaks
  BY DEF IInv, NoUrlLeaks
<1>1. CASE NotStarted(j) \/ OnRefusal(j)
  <2>1. Over(j) /\ busy' = FALSE /\ urls' = urls /\ downloads' = downloads
    BY <1>1 DEF NotStarted, OnRefusal, GiveUp
  <2>2. jobs[j].phase # "unposted"
    BY <1>1 DEF NotStarted, OnRefusal
  <2>. QED
    BY <1>0, <2>1, <2>2, UnpostedOver, RunningOver, InvEnds
<1>2. CASE OnAnswer(j)
  <2>1. Over(j) /\ busy' = FALSE /\ jobs[j].phase # "unposted"
    BY <1>2 DEF OnAnswer
  <2>2. faults < 2 => urls' = downloads'
    <3>1. PICK made : downloads' = made /\ urls' = urls \cup made
      BY <1>2 DEF OnAnswer
    <3>. QED
      BY <2>1, <3>1, RunsAlone
  <2>. QED
    BY <2>1, <2>2, UnpostedOver, RunningOver, InvEnds
<1>3. CASE PostFails(j)
  <2>1. /\ To(j, "unposted") /\ busy' = FALSE /\ urls' = urls /\ downloads' = downloads
        /\ Fault /\ jobs[j].phase # "unposted"
    BY <1>3 DEF PostFails, GiveUp
  <2>2. UnpostedInv'
    BY <2>1, FaultCounts DEF UnpostedInv, PageTypeOK
  <2>3. Running' = Running \ {j}
    BY <2>1, RunningTo DEF Phases
  <2>. QED
    BY <1>0, <2>1, <2>2, <2>3, InvEnds
<1>4. CASE NotLoaded(j) /\ jobs[j].phase = "unposted"
  \* Its worker fails after the request could not be posted: a second fault.
  <2>1. faults' >= 2 /\ faults' # 0
    BY <1>4, FaultCounts DEF NotLoaded, IInv, UnpostedInv, PageTypeOK
  <2>2. ~(faults' < 2) /\ faults' # 0
    BY <2>1, FaultCounts, <1>4 DEF NotLoaded
  <2>. QED
    BY <2>2 DEF IInv, UnpostedInv, BusyInv, NoUrlLeaks
<1>5. CASE \/ Post(j) \/ Succeed(j) \/ Refuse(j) \/ FallSilent(j)
           \/ (NotLoaded(j) /\ jobs[j].phase # "unposted")
  <2>1. /\ jobs[j].phase # "unposted"
        /\ UNCHANGED <<busy, downloads, urls>>
        /\ \E phase \in Phases : phase # "unposted" /\ To(j, phase)
    BY <1>5 DEF Post, Succeed, Refuse, FallSilent, NotLoaded, Phases
  <2>. QED
    BY <2>1, InvGoesOn
<1>. QED
  BY <1>1, <1>2, <1>3, <1>4, <1>5

LEMMA InvStep == PageTypeOK /\ IInv /\ [Step]_allVars => IInv'
<1>. SUFFICES ASSUME PageTypeOK, IInv, [Step]_allVars PROVE IInv'
  OBVIOUS
<1>1. CASE UNCHANGED allVars
  <2>1. UNCHANGED <<busy, downloads, urls, jobs, faults>>
    BY <1>1 DEF allVars, pageVars
  <2>2. Running' = Running
    BY <2>1 DEF Running
  <2>. QED
    BY <2>1, <2>2 DEF IInv, UnpostedInv, BusyInv, NoUrlLeaks
<1>2. CASE Step
  BY <1>2, InvForm, InvProcess, InvJob DEF Step
<1>. QED
  BY <1>1, <1>2

-----------------------------------------------------------------------------
(* The theorems *)

\* The page's variables keep their types and the invariant holds, whatever the
\* documents and however many jobs, faults and requests there are.
THEOREM PageInductive == WorkbenchSpec => [](PageTypeOK /\ IInv)
<1>1. Start => PageTypeOK /\ IInv
  BY TypeStart, InvStart
<1>2. PageTypeOK /\ IInv /\ [Step]_allVars => (PageTypeOK /\ IInv)'
  BY TypeStep, InvStep
<1>. QED
  BY <1>1, <1>2, PTL DEF WorkbenchSpec

\* main.rs, process: the page is busy exactly while its one job runs, until a
\* second fault: no job is begun while another runs.
THEOREM OneJobAtATime == WorkbenchSpec => []OneJob
<1>1. PageTypeOK /\ IInv => OneJob
  <2>. SUFFICES ASSUME PageTypeOK, IInv, faults < 2
                PROVE  Cardinality(Running) = IF busy THEN 1 ELSE 0
    BY DEF OneJob
  <2>1. CASE busy
    <3>1. PICK j \in DOMAIN jobs : Running = {j}
      BY <2>1 DEF IInv, BusyInv
    <3>. QED
      BY <2>1, <3>1, FS_Singleton
  <2>2. CASE ~busy
    <3>1. Running = {}
      BY <2>2 DEF IInv, BusyInv
    <3>. QED
      BY <2>2, <3>1, FS_EmptySet
  <2>. QED
    BY <2>1, <2>2
<1>. QED
  BY <1>1, PageInductive, PTL

\* main.rs, revoke_downloads: every object URL that was made is offered or was
\* revoked, until a second fault.
THEOREM LeaksNoUrl == WorkbenchSpec => []NoUrlLeaks
<1>1. PageTypeOK /\ IInv => NoUrlLeaks
  BY DEF IInv
<1>. QED
  BY <1>1, PageInductive, PTL

-----------------------------------------------------------------------------
(* What is shown of pages that are worked on in place *)

\* Work on pages changes nothing of what is above them.
LEMMA TouchedAbove ==
    ASSUME NEW o, NEW root, Woven(o, root, DOMAIN o), NEW o2, Touched(o2, o), NEW i \in OfKind(o, "page")
    PROVE  /\ i # 0 /\ Above(o, i, 0) = i
           /\ \A n \in Nat : Above(o2, i, n) = Above(o, i, n)
           /\ \A n \in Nat \ {0} : Above(o, i, n) # 0 => o2[Above(o, i, n)] = o[Above(o, i, n)]
<1>1. Upwards(o, DOMAIN o) /\ i \in DOMAIN o
  BY WebUpwards DEF Touched, OfKind
<1>2. i # 0 /\ Above(o, i, 0) = i
  BY <1>1, AboveRec DEF Upwards
<1>3. \A n \in Nat : Above(o2, i, n) = Above(o, i, n)
  <2>1. \A j \in DOMAIN o : o2[j].parent = o[j].parent
    BY DEF Touched, Stays
  <2>. QED
    BY <1>1, <2>1, SameAbove
<1>4. \A n \in Nat \ {0} : Above(o, i, n) = 0 \/ Above(o, i, n) \in OfKind(o, "pages")
  BY WayUp
<1>5. \A j \in OfKind(o, "pages") : o2[j] = o[j]
  BY DEF Touched, OfKind
<1>. QED
  BY <1>2, <1>3, <1>4, <1>5

\* The attributes that are found for a page that has not lost any.
LEMMA TouchedFound ==
    ASSUME NEW o, NEW root, Woven(o, root, DOMAIN o), NEW o2, Touched(o2, o),
           NEW i \in OfKind(o, "page"),
           DOMAIN o[i].attributes \subseteq DOMAIN o2[i].attributes
    PROVE  /\ FoundOver(Inherited(o2, i, MaxLevels), o2[i].attributes, Inherited(o, i, MaxLevels))
           /\ FoundOver(Inherited(o, i, MaxLevels), o[i].attributes, Inherited(o, i, MaxLevels))
<1>1. MaxLevels \in Nat
  BY LevelsAssumption
<1>2. /\ i # 0 /\ Above(o, i, 0) = i
      /\ \A n \in Nat : Above(o2, i, n) = Above(o, i, n)
      /\ \A n \in Nat \ {0} : Above(o, i, n) # 0 => o2[Above(o, i, n)] = o[Above(o, i, n)]
  BY TouchedAbove
<1>3. DOMAIN o2[i].attributes \subseteq Attributes /\ DOMAIN o[i].attributes \subseteq Attributes
  BY DEF Touched, Web, Shaped, Proper, OfKind
<1>4. /\ \A n \in 0 .. MaxLevels : Above(o2, i, n) = Above(o, i, n)
      /\ \A n \in 1 .. MaxLevels : LET a == Above(o, i, n)
                                   IN a # 0 => o2[a].attributes = o[a].attributes
  BY <1>1, <1>2
<1>5. GivesMore(o2, o, i, MaxLevels)
  BY <1>1, <1>2, <1>3, <1>4 DEF GivesMore
<1>6. GivesMore(o, o, i, MaxLevels)
  BY <1>1, <1>2, <1>3 DEF GivesMore
<1>. QED
  BY <1>5, <1>6, InheritedOver

\* An attribute that is set on a page, or on the page with all it inherits.
SetOn(o2, o, i, key, value) ==
    LET own2 == o2[i].attributes
        found == Inherited(o, i, MaxLevels)
        own == o[i].attributes
    IN /\ key \in DOMAIN own2 /\ own2[key] = value
       /\ \/ DOMAIN own2 = DOMAIN own \cup {key} /\ \A k \in DOMAIN own \ {key} : own2[k] = own[k]
          \/ DOMAIN own2 = DOMAIN found \cup {key} /\ \A k \in DOMAIN found \ {key} : own2[k] = found[k]

AlsoFound(found2, found, key, value) ==
    /\ DOMAIN found2 = DOMAIN found \cup {key}
    /\ found2[key] = value
    /\ \A k : k # key => Likewise(found2, found, k)

\* An attribute that is set on a page, with what it inherits, is found for it over
\* those that were found.
LEMMA FoundSet ==
    ASSUME NEW o, NEW root, Woven(o, root, DOMAIN o), NEW o2, Touched(o2, o),
           NEW i \in OfKind(o, "page"), NEW key, NEW value, SetOn(o2, o, i, key, value)
    PROVE  AlsoFound(Inherited(o2, i, MaxLevels), Inherited(o, i, MaxLevels), key, value)
<1>. DEFINE found2 == Inherited(o2, i, MaxLevels)
            found == Inherited(o, i, MaxLevels)
            own2 == o2[i].attributes
            own == o[i].attributes
<1>1. DOMAIN own \subseteq DOMAIN found /\ \A k \in DOMAIN own : found[k] = own[k]
  <2>1. Touched(o, o)
    BY DEF Touched, Stays
  <2>2. FoundOver(found, own, found)
    BY <2>1, TouchedFound
  <2>. QED
    BY <2>2 DEF FoundOver
<1>2. DOMAIN own \subseteq DOMAIN own2
  BY <1>1 DEF SetOn
<1>3. FoundOver(found2, own2, found)
  <2>1. DOMAIN o[i].attributes \subseteq DOMAIN o2[i].attributes
    BY <1>2
  <2>. QED
    BY <2>1, TouchedFound
<1>4. key \in DOMAIN own2 /\ own2[key] = value
      /\ \/ DOMAIN own2 = DOMAIN own \cup {key} /\ \A k \in DOMAIN own \ {key} : own2[k] = own[k]
         \/ DOMAIN own2 = DOMAIN found \cup {key} /\ \A k \in DOMAIN found \ {key} : own2[k] = found[k]
  BY DEF SetOn
<1>. HIDE DEF found2, found, own2, own
<1>5. DOMAIN found2 = DOMAIN found \cup {key} /\ found2[key] = value
  BY <1>1, <1>3, <1>4 DEF FoundOver
<1>6. ASSUME NEW k, k # key PROVE Likewise(found2, found, k)
  BY <1>1, <1>3, <1>4, <1>5, <1>6 DEF Likewise, FoundOver
<1>. QED
  BY <1>5, <1>6 DEF found2, found, AlsoFound

\* What a page refers to is as it was.
LEMMA TouchedRefs ==
    ASSUME NEW o, NEW o2, Touched(o2, o), NEW i \in OfKind(o, "page")
    PROVE  LET found == Inherited(o, i, MaxLevels)
           IN /\ \A k \in DOMAIN o[i].contents : o2[o[i].contents[k]] = o[o[i].contents[k]]
              /\ \A name \in DOMAIN Named(found) : o2[Named(found)[name]] = o[Named(found)[name]]
              /\ \A a \in DOMAIN o : o[a].kind \in Annotations => Note(o2, a) = Note(o, a)
              /\ Notes(o2, o[i].annots) = Notes(o, o[i].annots)
<1>1. MaxLevels \in Nat /\ i \in DOMAIN o
  BY LevelsAssumption DEF OfKind
<1>2. Web(o, DOMAIN o) /\ Shaped(o[i], DOMAIN o) /\ Refers(o, DOMAIN o, o[i])
  BY <1>1 DEF Touched, Web
<1>3. \A j \in DOMAIN o : o[j].kind \notin {"page", "catalog"} => o2[j] = o[j]
  BY DEF Touched
<1>4. ASSUME NEW k \in DOMAIN o[i].contents PROVE o2[o[i].contents[k]] = o[o[i].contents[k]]
  <2>1. o[i].contents[k] \in In(o, DOMAIN o, {"content"})
    BY <1>2 DEF Refers, ToSet
  <2>. QED
    BY <1>3, <2>1 DEF In
<1>5. ASSUME NEW name \in DOMAIN Named(Inherited(o, i, MaxLevels))
      PROVE  LET found == Inherited(o, i, MaxLevels)
             IN o2[Named(found)[name]] = o[Named(found)[name]]
  <2>1. Named(Inherited(o, i, MaxLevels))[name] \in In(o, DOMAIN o, {"state", "form"})
    BY <1>1, <1>2, InheritedProper
  <2>. QED
    BY <1>3, <2>1 DEF In
<1>6. ASSUME NEW a \in DOMAIN o, o[a].kind \in Annotations PROVE Note(o2, a) = Note(o, a)
  <2>1. o2[a] = o[a]
    BY <1>3, <1>6 DEF Annotations
  <2>2. o[a].appearance \in In(o, DOMAIN o, {"form"}) \cup {0}
    BY <1>2 DEF Web, Refers
  <2>3. o[a].appearance # 0 => o2[o[a].appearance] = o[o[a].appearance]
    BY <1>3, <2>2 DEF In
  <2>. QED
    BY <2>1, <2>3 DEF Note
<1>7. Notes(o2, o[i].annots) = Notes(o, o[i].annots)
  <2>1. \A k \in DOMAIN o[i].annots : o[i].annots[k] \in In(o, DOMAIN o, Annotations)
    BY <1>2 DEF Refers, ToSet
  <2>2. \A k \in DOMAIN o[i].annots : Note(o2, o[i].annots[k]) = Note(o, o[i].annots[k])
    BY <1>6, <2>1 DEF In
  <2>. QED
    BY <2>2 DEF Notes
<1>. QED
  BY <1>4, <1>5, <1>6, <1>7

\* The pages of a document that is worked on in place are its pages.
LEMMA InPlaceView ==
    ASSUME NEW d, Woven(d.objects, d.root, DOMAIN d.objects), NEW o2, Touched(o2, d.objects),
           NEW e, e.objects = o2, e.root = d.root, Woven(o2, d.root, DOMAIN o2)
    PROVE  /\ PageIds(e) = PageIds(d) /\ View(e) = Looks(o2, PageIds(d))
           /\ View(d) = Looks(d.objects, PageIds(d))
           /\ OfKind(o2, "page") = OfKind(d.objects, "page")
<1>1. Web(d.objects, DOMAIN d.objects) /\ Web(o2, DOMAIN o2) /\ d.root \in DOMAIN d.objects
  BY DEF Woven, Rooted, In
<1>2. PageIds(e) = PageIds(d)
  <2>1. MaxLevels \in Nat
    BY LevelsAssumption
  <2>2. \A i \in DOMAIN d.objects : o2[i].kind = d.objects[i].kind /\ o2[i].kids = d.objects[i].kids
    BY DEF Touched, Stays
  <2>3. DOMAIN d.objects \subseteq DOMAIN o2
    BY DEF Touched
  <2>4. \A n \in Nat : \A i \in DOMAIN d.objects : Leaves(o2, n)[i] = Leaves(d.objects, n)[i]
    BY <1>1, <2>2, <2>3, LeavesSame
  <2>. QED
    BY <1>1, <2>1, <2>4 DEF PageIds
<1>3. View(e) = Looks(o2, PageIds(d)) /\ View(d) = Looks(d.objects, PageIds(d))
  BY <1>2, ViewOf
<1>4. ToSet(PageIds(e)) = OfKind(o2, "page") /\ ToSet(PageIds(d)) = OfKind(d.objects, "page")
  BY WovenPages
<1>. QED
  BY <1>2, <1>3, <1>4

\* A page that was not worked on looks as it did.
LEMMA UntouchedLook ==
    ASSUME NEW o, NEW root, Woven(o, root, DOMAIN o), NEW o2, Touched(o2, o),
           NEW i \in OfKind(o, "page"), o2[i] = o[i], Readable(o, o[i], Inherited(o, i, MaxLevels))
    PROVE  Look(o2, i) = Look(o, i) /\ Readable(o2, o2[i], Inherited(o2, i, MaxLevels))
<1>. DEFINE found == Inherited(o, i, MaxLevels)
<1>1. MaxLevels \in Nat
  BY LevelsAssumption
<1>2. Inherited(o2, i, MaxLevels) = found
  <2>1. /\ i # 0 /\ Above(o, i, 0) = i
        /\ \A n \in Nat : Above(o2, i, n) = Above(o, i, n)
        /\ \A n \in Nat \ {0} : Above(o, i, n) # 0 => o2[Above(o, i, n)] = o[Above(o, i, n)]
    BY TouchedAbove
  <2>2. \A n \in 0 .. MaxLevels :
           /\ Above(o2, i, n) = Above(o, i, n)
           /\ Above(o, i, n) # 0 => o2[Above(o, i, n)].attributes = o[Above(o, i, n)].attributes
    BY <1>1, <2>1
  <2>. QED
    BY <1>1, <2>2, InheritedSame
<1>3. /\ \A k \in DOMAIN o[i].contents : o2[o[i].contents[k]] = o[o[i].contents[k]]
      /\ \A name \in DOMAIN Named(found) : o2[Named(found)[name]] = o[Named(found)[name]]
      /\ Notes(o2, o[i].annots) = Notes(o, o[i].annots)
  BY TouchedRefs
<1>. HIDE DEF found
<1>4. \A k \in DOMAIN o[i].annots : Note(o2, o[i].annots[k]) = Note(o, o[i].annots[k])
  BY <1>3 DEF Notes
<1>5. Reads(o2, o2[i], found, o, o[i], found)
  BY <1>3, <1>4 DEF Reads, Likewise
<1>6. PageView(o2, o2[i], found) = PageView(o, o[i], found) /\ Readable(o2, o2[i], found)
  <2>1. Readable(o, o[i], found)
    BY DEF found
  <2>. QED
    BY <1>5, <2>1, ReadsSame
<1>. QED
  BY <1>2, <1>6 DEF Look, found

\* An attribute that is set on a page does not change what it draws.
OnlySet(o2, o, i, key, value) ==
    LET found2 == Inherited(o2, i, MaxLevels)
        found == Inherited(o, i, MaxLevels)
    IN /\ Ink(o2, Named(found2), o2[i].contents) = Ink(o, Named(found), o[i].contents)
       /\ Notes(o2, o2[i].annots) = Notes(o, o[i].annots)
       /\ Readable(o2, o2[i], found2)
       /\ key \in DOMAIN found2 /\ found2[key] = value
       /\ \A k : k # key => Likewise(found2, found, k)

\* A page of which one attribute was set looks as it did but for that attribute.
LEMMA SetLook ==
    ASSUME NEW o, NEW root, Woven(o, root, DOMAIN o), NEW o2, Touched(o2, o),
           NEW i \in OfKind(o, "page"), Readable(o, o[i], Inherited(o, i, MaxLevels)),
           o2[i].contents = o[i].contents, o2[i].annots = o[i].annots,
           NEW key, key # "resources", NEW value, SetOn(o2, o, i, key, value)
    PROVE  OnlySet(o2, o, i, key, value)
<1>. DEFINE found2 == Inherited(o2, i, MaxLevels)
            found == Inherited(o, i, MaxLevels)
<1>1. /\ DOMAIN found2 = DOMAIN found \cup {key}
      /\ found2[key] = value
      /\ \A k : k # key => Likewise(found2, found, k)
  BY FoundSet DEF AlsoFound
<1>2. /\ \A k \in DOMAIN o[i].contents : o2[o[i].contents[k]] = o[o[i].contents[k]]
      /\ \A name \in DOMAIN Named(found) : o2[Named(found)[name]] = o[Named(found)[name]]
      /\ Notes(o2, o[i].annots) = Notes(o, o[i].annots)
  BY TouchedRefs
<1>3. Readable(o, o[i], found)
  OBVIOUS
<1>. HIDE DEF found2, found
<1>4. Named(found2) = Named(found)
  <2>1. Likewise(found2, found, "resources")
    BY <1>1
  <2>. QED
    BY <2>1 DEF Named, Likewise
<1>5. Draws(o2, Named(found2), o2[i].contents, o, Named(found), o[i].contents)
  BY <1>2, <1>4 DEF Draws
<1>6. /\ Ink(o2, Named(found2), o2[i].contents) = Ink(o, Named(found), o[i].contents)
      /\ \A c \in ToSet(o2[i].contents) :
            /\ o2[c].draws \in Seq(ToSet(o2[c].draws))
            /\ \A item \in ToSet(o2[c].draws) : "own" \in DOMAIN item \/ item.name \in DOMAIN Named(found2)
  BY <1>3, <1>5, DrawsSame
<1>7. Readable(o2, o2[i], found2)
  BY <1>3, <1>4, <1>6 DEF Readable
<1>8. key \in DOMAIN found2
  BY <1>1
<1>. QED
  BY <1>1, <1>2, <1>6, <1>7, <1>8 DEF found2, found, OnlySet

\* Quarter turns add up.
LEMMA TurnsAdd ==
    ASSUME NEW r \in {-90, 0} \cup Angles, NEW angle \in Angles
    PROVE  ((r + angle) % 360) % 360 = ((r % 360) + angle) % 360
  BY DEF Angles

\* A page that is rotated is turned by the angle, from where a viewer had it.
LEMMA RotatedLook ==
    ASSUME NEW o, NEW root, Woven(o, root, DOMAIN o), NEW o2, Touched(o2, o),
           NEW i \in OfKind(o, "page"), Readable(o, o[i], Inherited(o, i, MaxLevels)),
           NEW angle \in Angles, RotationKnown(o, i), o2[i] = RotatedPage(o, i, angle)
    PROVE  /\ Look(o2, i) = [Look(o, i) EXCEPT !.rotate = (@ + angle) % 360]
           /\ Readable(o2, o2[i], Inherited(o2, i, MaxLevels))
<1>. DEFINE found2 == Inherited(o2, i, MaxLevels)
            found == Inherited(o, i, MaxLevels)
            r == InheritedRotation(o, i)
            turned == (r + angle) % 360
<1>1. Shaped(o[i], DOMAIN o) /\ Web(o, DOMAIN o) /\ i \in DOMAIN o
  BY DEF Woven, Web, OfKind
<1>2. LET y == WithAttribute(o[i], "rotate", turned)
      IN /\ Restyled(y, o[i])
         /\ DOMAIN y.attributes = DOMAIN o[i].attributes \cup {"rotate"}
         /\ y.attributes["rotate"] = turned
         /\ \A k \in DOMAIN o[i].attributes \ {"rotate"} : y.attributes[k] = o[i].attributes[k]
  BY <1>1, WithAttributeFacts
<1>3. o2[i] = WithAttribute(o[i], "rotate", turned)
  BY DEF RotatedPage
<1>4. r = Value(found, "rotate", 0)
  BY RotationFound DEF Value
<1>5. r \in {-90, 0} \cup Angles
  <2>1. MaxLevels \in Nat
    BY LevelsAssumption
  <2>2. Proper(found)
    BY <1>1, <2>1, InheritedProper
  <2>. HIDE DEF found, r
  <2>. QED
    BY <1>4, <2>2 DEF Proper, Value
<1>. HIDE DEF r, turned
<1>6. SetOn(o2, o, i, "rotate", turned) /\ o2[i].contents = o[i].contents /\ o2[i].annots = o[i].annots
  BY <1>2, <1>3 DEF SetOn, Restyled
<1>7. /\ Ink(o2, Named(found2), o2[i].contents) = Ink(o, Named(found), o[i].contents)
      /\ Notes(o2, o2[i].annots) = Notes(o, o[i].annots)
      /\ Readable(o2, o2[i], found2)
      /\ "rotate" \in DOMAIN found2 /\ found2["rotate"] = turned
      /\ \A k : k # "rotate" => Likewise(found2, found, k)
  <2>1. OnlySet(o2, o, i, "rotate", turned)
    BY <1>6, SetLook
  <2>. QED
    BY <2>1 DEF OnlySet
<1>8. Look(o2, i) = PageView(o2, o2[i], found2) /\ Look(o, i) = PageView(o, o[i], found)
  BY DEF Look
<1>. HIDE DEF found2, found
<1>9. /\ Value(found2, "rotate", 0) = turned
      /\ Value(found2, "crop", None) = Value(found, "crop", None)
      /\ Value(found2, "media", None) = Value(found, "media", None)
  BY <1>7 DEF Value, Likewise
<1>10. turned % 360 = ((r % 360) + angle) % 360
  BY <1>5, TurnsAdd DEF turned
<1>11. PageView(o2, o2[i], found2) =
         [drawn |-> Ink(o2, Named(found2), o2[i].contents), annots |-> Notes(o2, o2[i].annots),
          rotate |-> Value(found2, "rotate", 0) % 360, crop |-> Value(found2, "crop", None),
          media |-> Value(found2, "media", None)]
  BY PageViewParts
<1>12. PageView(o, o[i], found) =
         [drawn |-> Ink(o, Named(found), o[i].contents), annots |-> Notes(o, o[i].annots),
          rotate |-> r % 360, crop |-> Value(found, "crop", None),
          media |-> Value(found, "media", None)]
  BY <1>4, PageViewParts
<1>13. Look(o2, i) = [Look(o, i) EXCEPT !.rotate = (@ + angle) % 360]
  BY <1>7, <1>8, <1>9, <1>10, <1>11, <1>12
<1>. QED
  BY <1>7, <1>13 DEF found2

\* A page that is cropped has the box, and looks as it did in all else.
LEMMA CroppedLook ==
    ASSUME NEW o, NEW root, Woven(o, root, DOMAIN o), NEW o2, Touched(o2, o),
           NEW i \in OfKind(o, "page"), Readable(o, o[i], Inherited(o, i, MaxLevels)),
           NEW box, o2[i] = WithAttribute(Materialize(o, i), "crop", box)
    PROVE  /\ Look(o2, i) = [Look(o, i) EXCEPT !.crop = box]
           /\ Readable(o2, o2[i], Inherited(o2, i, MaxLevels))
<1>. DEFINE found2 == Inherited(o2, i, MaxLevels)
            found == Inherited(o, i, MaxLevels)
            x == Materialize(o, i)
<1>1. Web(o, DOMAIN o) /\ i \in DOMAIN o
  BY DEF Woven, OfKind
<1>2. Shaped(x, DOMAIN o) /\ Restyled(x, o[i]) /\ x.attributes = found
  BY <1>1, MaterializeFacts
<1>. HIDE DEF x
<1>3. LET y == WithAttribute(x, "crop", box)
      IN /\ Restyled(y, x)
         /\ DOMAIN y.attributes = DOMAIN x.attributes \cup {"crop"}
         /\ y.attributes["crop"] = box
         /\ \A k \in DOMAIN x.attributes \ {"crop"} : y.attributes[k] = x.attributes[k]
  BY <1>2, WithAttributeFacts
<1>4. o2[i] = WithAttribute(x, "crop", box)
  BY DEF x
<1>6. SetOn(o2, o, i, "crop", box) /\ o2[i].contents = o[i].contents /\ o2[i].annots = o[i].annots
  BY <1>2, <1>3, <1>4 DEF SetOn, Restyled
<1>7. /\ Ink(o2, Named(found2), o2[i].contents) = Ink(o, Named(found), o[i].contents)
      /\ Notes(o2, o2[i].annots) = Notes(o, o[i].annots)
      /\ Readable(o2, o2[i], found2)
      /\ "crop" \in DOMAIN found2 /\ found2["crop"] = box
      /\ \A k : k # "crop" => Likewise(found2, found, k)
  <2>1. OnlySet(o2, o, i, "crop", box)
    BY <1>6, SetLook
  <2>. QED
    BY <2>1 DEF OnlySet
<1>8. Look(o2, i) = PageView(o2, o2[i], found2) /\ Look(o, i) = PageView(o, o[i], found)
  BY DEF Look
<1>. HIDE DEF found2, found
<1>9. /\ Value(found2, "rotate", 0) = Value(found, "rotate", 0)
      /\ Value(found2, "crop", None) = box
      /\ Value(found2, "media", None) = Value(found, "media", None)
  BY <1>7 DEF Value, Likewise
<1>13. Look(o2, i) = [Look(o, i) EXCEPT !.crop = box]
  BY <1>7, <1>8, <1>9, PageViewParts
<1>. QED
  BY <1>7, <1>13 DEF found2

-----------------------------------------------------------------------------
(* Rotate and crop do to the list of pages what they promise *)

\* A request selects the same pages of a document as of its list.
LEMMA SelectedSame ==
    ASSUME Woven(doc.objects, doc.root, DOMAIN doc.objects),
           NEW ranges \in SeqOf(Ranges, 2), \A i \in DOMAIN ranges : ValidRange(ranges[i]),
           NEW list, DOMAIN list = DOMAIN PageIds(doc)
    PROVE  \A p \in DOMAIN list :
              PageIds(doc)[p] \in SelectedPages(ranges) <=> p \in List!Selected(list, ranges)
<1>. DEFINE pages == PageIds(doc)
<1>1. pages \in Seq(DOMAIN doc.objects) /\ IsInjective(pages)
  BY WovenPages
<1>2. ASSUME NEW i \in DOMAIN ranges, NEW p \in ranges[i].start .. ranges[i].end
      PROVE  p \in DOMAIN pages
  <2>1. ranges[i] \in Ranges
    BY DEF SeqOf
  <2>2. ranges[i].start \in Nat /\ ranges[i].end \in Nat
    BY <2>1, RangesAssumption
  <2>3. ranges[i].start # 0 /\ ranges[i].end <= Len(pages)
    BY DEF ValidRange
  <2>. HIDE DEF pages
  <2>4. Len(pages) \in Nat /\ DOMAIN pages = 1 .. Len(pages)
    BY <1>1
  <2>. QED
    BY <2>2, <2>3, <2>4
<1>3. \A p, q \in DOMAIN pages : pages[p] = pages[q] => p = q
  BY <1>1 DEF IsInjective
<1>. HIDE DEF pages
<1>4. CASE ranges = <<>>
  BY <1>4 DEF SelectedPages, List!Selected, ToSet, pages
<1>5. CASE ranges # <<>>
  <2>1. \A p \in DOMAIN list : p \in List!Selected(list, ranges)
                                 <=> \E i \in DOMAIN ranges : p \in ranges[i].start .. ranges[i].end
    BY <1>5 DEF List!Selected
  <2>2. SelectedPages(ranges)
           = {pages[p] : p \in UNION {ranges[i].start .. ranges[i].end : i \in DOMAIN ranges}}
    BY <1>5 DEF SelectedPages, pages
  <2>3. DOMAIN list = DOMAIN pages
    BY DEF pages
  <2>4. ASSUME NEW p \in DOMAIN list
        PROVE  pages[p] \in SelectedPages(ranges)
                  <=> \E i \in DOMAIN ranges : p \in ranges[i].start .. ranges[i].end
    BY <1>2, <1>3, <2>2, <2>3
  <2>. QED
    BY <2>1, <2>4 DEF pages
<1>. QED
  BY <1>4, <1>5

\* A document worked on in place shows the same pages in the same order, each as it
\* looks now.
LEMMA InPlaceHands ==
    ASSUME Good(doc), shown = View(doc), NEW o2, InPlace(o2), shown' = View(doc')
    PROVE  /\ shown = Looks(doc.objects, PageIds(doc)) /\ shown' = Looks(o2, PageIds(doc))
           /\ OfKind(o2, "page") = OfKind(doc.objects, "page")
           /\ \A p \in DOMAIN PageIds(doc) : PageIds(doc)[p] \in OfKind(doc.objects, "page")
<1>1. /\ Woven(doc.objects, doc.root, DOMAIN doc.objects)
      /\ Woven(doc'.objects, doc'.root, DOMAIN doc'.objects)
  <2>1. \A d : Good(d) => Woven(d.objects, d.root, DOMAIN d.objects)
    BY GoodFacts
  <2>. QED
    BY <2>1 DEF InPlace
<1>2. doc'.objects = o2 /\ doc'.root = doc.root /\ Touched(o2, doc.objects)
  BY DEF InPlace
<1>3. Woven(o2, doc.root, DOMAIN o2)
  BY <1>1, <1>2
<1>4. \A e : e.objects = o2 /\ e.root = doc.root
                => /\ View(e) = Looks(o2, PageIds(doc))
                   /\ View(doc) = Looks(doc.objects, PageIds(doc))
                   /\ OfKind(o2, "page") = OfKind(doc.objects, "page")
  BY <1>1, <1>2, <1>3, InPlaceView
<1>5. ToSet(PageIds(doc)) = OfKind(doc.objects, "page")
  BY <1>1, WovenPages
<1>. QED
  BY <1>2, <1>4, <1>5 DEF ToSet

\* rotate.rs works in place, on the pages selected.
LEMMA RotateInPlace ==
    ASSUME Good(doc), NEW ranges \in SeqOf(Ranges, 2), NEW angle \in Angles, Rotate(ranges, angle)
    PROVE  \E o2 : /\ InPlace(o2)
                   /\ \A i \in DOMAIN doc.objects :
                         o2[i] = IF i \in SelectedPages(ranges) THEN RotatedPage(doc.objects, i, angle)
                                 ELSE doc.objects[i]
<1>. DEFINE o == doc.objects
            D == DOMAIN o
            selected == SelectedPages(ranges)
            o2 == [i \in D |-> IF i \in selected THEN RotatedPage(o, i, angle) ELSE o[i]]
<1>1. /\ doc = [objects |-> o, root |-> doc.root] /\ Web(o, D) /\ Woven(o, doc.root, D)
  BY GoodFacts
<1>2. doc' = [doc EXCEPT !.objects = o2]
  BY DEF Rotate, Answer
<1>3. doc' = [objects |-> o2, root |-> doc.root]
  <2>. HIDE DEF o2, o
  <2>. QED
    BY <1>1, <1>2
<1>4. Good(doc')
  BY RotateGood
<1>5. Web(o2, DOMAIN o2)
  <2>1. \A d : Good(d) => Web(d.objects, DOMAIN d.objects)
    BY GoodFacts
  <2>. HIDE DEF o2
  <2>. QED
    BY <1>3, <1>4, <2>1
<1>6. selected \subseteq OfKind(o, "page")
  BY <1>1, SelectedFacts DEF Rotate
<1>7. DOMAIN o2 = D
      /\ \A i \in D : o2[i] = IF i \in selected THEN RotatedPage(o, i, angle) ELSE o[i]
  OBVIOUS
<1>. HIDE DEF o2, selected
<1>8. \A j \in D : Stays(o2[j], o[j])
  <2>1. \A j \in D : Stays(RotatedPage(o, j, angle), o[j])
    BY <1>1, Rotations
  <2>. QED
    BY <1>7, <2>1 DEF Stays
<1>9. \A j \in D : o[j].kind \notin {"page", "catalog"} => o2[j] = o[j]
  BY <1>6, <1>7 DEF OfKind
<1>10. InPlace(o2)
  BY <1>1, <1>3, <1>4, <1>5, <1>7, <1>8, <1>9 DEF InPlace, Touched
<1>. QED
  BY <1>7, <1>10 DEF selected

\* rotate.rs turns the pages that were asked for, as the viewer sees them.
LEMMA RotateLists ==
    ASSUME Good(doc), Legible(doc.objects), shown = View(doc),
           NEW ranges \in SeqOf(Ranges, 2), NEW angle \in Angles, Rotate(ranges, angle)
    PROVE  List!Rotate /\ Legible(doc'.objects)
<1>. DEFINE o == doc.objects
            ids == PageIds(doc)
            selected == SelectedPages(ranges)
<1>1. PICK o2 : /\ InPlace(o2)
                /\ \A i \in DOMAIN o : o2[i] = IF i \in selected THEN RotatedPage(o, i, angle) ELSE o[i]
  BY RotateInPlace
<1>2. /\ \A i \in DOMAIN ranges : ValidRange(ranges[i])
      /\ \A i \in selected : RotationKnown(o, i)
      /\ shown' = View(doc')
      /\ request' = [op |-> "rotate", ranges |-> ranges, angle |-> angle]
  BY DEF Rotate, Answer
<1>3. /\ shown = Looks(o, ids) /\ shown' = Looks(o2, ids)
      /\ OfKind(o2, "page") = OfKind(o, "page")
      /\ \A p \in DOMAIN ids : ids[p] \in OfKind(o, "page")
  BY <1>1, <1>2, InPlaceHands
<1>4. Woven(o, doc.root, DOMAIN o) /\ Touched(o2, o)
  BY <1>1, GoodFacts DEF InPlace
<1>. HIDE DEF selected, ids
<1>5. ASSUME NEW i \in OfKind(o, "page")
      PROVE  /\ Look(o2, i) = IF i \in selected THEN [Look(o, i) EXCEPT !.rotate = (@ + angle) % 360]
                              ELSE Look(o, i)
             /\ Readable(o2, o2[i], Inherited(o2, i, MaxLevels))
  <2>1. Readable(o, o[i], Inherited(o, i, MaxLevels)) /\ i \in DOMAIN o
    BY DEF Legible, OfKind
  <2>2. CASE i \in selected
    BY <1>1, <1>2, <1>4, <2>1, <2>2, RotatedLook
  <2>3. CASE i \notin selected
    BY <1>1, <1>4, <2>1, <2>3, UntouchedLook
  <2>. QED
    BY <2>2, <2>3
<1>6. DOMAIN shown = DOMAIN ids /\ DOMAIN shown' = DOMAIN ids
      /\ \A p \in DOMAIN ids : shown[p] = Look(o, ids[p]) /\ shown'[p] = Look(o2, ids[p])
  BY <1>3 DEF Looks
<1>7. \A p \in DOMAIN ids : ids[p] \in selected <=> p \in List!Selected(shown, ranges)
  BY <1>2, <1>4, <1>6, SelectedSame DEF ids, selected
<1>8. shown' = [p \in DOMAIN shown |-> IF p \in List!Selected(shown, ranges)
                                       THEN [shown[p] EXCEPT !.rotate = (@ + angle) % 360]
                                       ELSE shown[p]]
  <2>1. \A p \in DOMAIN ids : shown'[p] = IF p \in List!Selected(shown, ranges)
                                          THEN [shown[p] EXCEPT !.rotate = (@ + angle) % 360]
                                          ELSE shown[p]
    BY <1>3, <1>5, <1>6, <1>7
  <2>2. shown' = [p \in DOMAIN ids |-> shown'[p]]
    BY <1>3 DEF Looks
  <2>. QED
    BY <1>6, <2>1, <2>2
<1>9. List!Rotate
  BY <1>2, <1>8 DEF List!Rotate, List!Rotated
<1>10. Legible(doc'.objects)
  <2>1. doc'.objects = o2
    BY <1>1 DEF InPlace
  <2>2. Legible(o2)
    BY <1>3, <1>5 DEF Legible
  <2>. QED
    BY <2>1, <2>2
<1>. QED
  BY <1>9, <1>10

\* crop.rs works in place, on the pages selected.
LEMMA CropInPlace ==
    ASSUME Good(doc), NEW ranges \in SeqOf(Ranges, 2), NEW box \in Boxes, Crop(ranges, box)
    PROVE  \E o2 : /\ InPlace(o2)
                   /\ \A i \in DOMAIN doc.objects :
                         o2[i] = IF i \in SelectedPages(ranges)
                                 THEN WithAttribute(Materialize(doc.objects, i), "crop", box)
                                 ELSE doc.objects[i]
<1>. DEFINE o == doc.objects
            D == DOMAIN o
            selected == SelectedPages(ranges)
            page(i) == WithAttribute(Materialize(o, i), "crop", box)
            o2 == [i \in D |-> IF i \in selected THEN page(i) ELSE o[i]]
<1>1. /\ doc = [objects |-> o, root |-> doc.root] /\ Web(o, D) /\ Woven(o, doc.root, D)
  BY GoodFacts
<1>2. doc' = [doc EXCEPT !.objects = o2]
  BY DEF Crop, Answer
<1>3. doc' = [objects |-> o2, root |-> doc.root]
  <2>. HIDE DEF o2, o
  <2>. QED
    BY <1>1, <1>2
<1>4. Good(doc')
  BY CropGood
<1>5. Web(o2, DOMAIN o2)
  <2>1. \A d : Good(d) => Web(d.objects, DOMAIN d.objects)
    BY GoodFacts
  <2>. HIDE DEF o2
  <2>. QED
    BY <1>3, <1>4, <2>1
<1>6. selected \subseteq OfKind(o, "page")
  BY <1>1, SelectedFacts DEF Crop
<1>7. DOMAIN o2 = D /\ \A i \in D : o2[i] = IF i \in selected THEN page(i) ELSE o[i]
  OBVIOUS
<1>. HIDE DEF o2, selected
<1>8. ASSUME NEW j \in D PROVE Stays(o2[j], o[j])
  <2>1. LET x == Materialize(o, j) IN Shaped(x, D) /\ Refers(o, D, x) /\ Stays(x, o[j])
    BY <1>1, MaterializeFacts
  <2>2. Stays(page(j), Materialize(o, j))
    BY <2>1, WithAttributeFits
  <2>. QED
    BY <1>7, <2>1, <2>2 DEF Stays
<1>9. \A j \in D : o[j].kind \notin {"page", "catalog"} => o2[j] = o[j]
  BY <1>6, <1>7 DEF OfKind
<1>10. InPlace(o2)
  BY <1>1, <1>3, <1>4, <1>5, <1>7, <1>8, <1>9 DEF InPlace, Touched
<1>. QED
  BY <1>7, <1>10 DEF selected

\* crop.rs crops all the pages that were asked for, or none.
LEMMA CropLists ==
    ASSUME Good(doc), Legible(doc.objects), shown = View(doc),
           NEW ranges \in SeqOf(Ranges, 2), NEW box \in Boxes, Crop(ranges, box)
    PROVE  List!Crop /\ Legible(doc'.objects)
<1>. DEFINE o == doc.objects
            ids == PageIds(doc)
            selected == SelectedPages(ranges)
            page(i) == WithAttribute(Materialize(o, i), "crop", box)
<1>1. PICK o2 : /\ InPlace(o2)
                /\ \A i \in DOMAIN o : o2[i] = IF i \in selected THEN page(i) ELSE o[i]
  BY CropInPlace
<1>2. /\ \A i \in DOMAIN ranges : ValidRange(ranges[i])
      /\ \A i \in selected : LET known == Materialize(o, i).attributes
                             IN "media" \in DOMAIN known /\ box <= known.media
      /\ shown' = View(doc')
      /\ request' = [op |-> "crop", ranges |-> ranges, box |-> box]
  BY DEF Crop, Answer
<1>3. /\ shown = Looks(o, ids) /\ shown' = Looks(o2, ids)
      /\ OfKind(o2, "page") = OfKind(o, "page")
      /\ \A p \in DOMAIN ids : ids[p] \in OfKind(o, "page")
  BY <1>1, <1>2, InPlaceHands
<1>4. Woven(o, doc.root, DOMAIN o) /\ Touched(o2, o) /\ Web(o, DOMAIN o)
  BY <1>1, GoodFacts DEF InPlace
<1>. HIDE DEF selected, ids
<1>5. ASSUME NEW i \in OfKind(o, "page")
      PROVE  /\ Look(o2, i) = IF i \in selected THEN [Look(o, i) EXCEPT !.crop = box] ELSE Look(o, i)
             /\ Readable(o2, o2[i], Inherited(o2, i, MaxLevels))
             /\ i \in selected => box <= Look(o, i).media
  <2>1. Readable(o, o[i], Inherited(o, i, MaxLevels)) /\ i \in DOMAIN o
    BY DEF Legible, OfKind
  <2>2. CASE i \in selected
    <3>1. o2[i] = page(i)
      BY <1>1, <2>1, <2>2
    <3>2. /\ Look(o2, i) = [Look(o, i) EXCEPT !.crop = box]
          /\ Readable(o2, o2[i], Inherited(o2, i, MaxLevels))
      BY <1>4, <2>1, <3>1, CroppedLook
    <3>3. LET known == Inherited(o, i, MaxLevels)
          IN "media" \in DOMAIN known /\ box <= known.media
      <4>1. Materialize(o, i).attributes = Inherited(o, i, MaxLevels)
        BY <1>4, <2>1, MaterializeFacts
      <4>. QED
        BY <1>2, <2>2, <4>1
    <3>4. Look(o, i).media = Value(Inherited(o, i, MaxLevels), "media", None)
      BY PageViewParts DEF Look
    <3>. QED
      BY <2>2, <3>2, <3>3, <3>4 DEF Value
  <2>3. CASE i \notin selected
    BY <1>1, <1>4, <2>1, <2>3, UntouchedLook
  <2>. QED
    BY <2>2, <2>3
<1>6. DOMAIN shown = DOMAIN ids /\ DOMAIN shown' = DOMAIN ids
      /\ \A p \in DOMAIN ids : shown[p] = Look(o, ids[p]) /\ shown'[p] = Look(o2, ids[p])
  BY <1>3 DEF Looks
<1>7. \A p \in DOMAIN ids : ids[p] \in selected <=> p \in List!Selected(shown, ranges)
  BY <1>2, <1>4, <1>6, SelectedSame DEF ids, selected
<1>8. shown' = [p \in DOMAIN shown |-> IF p \in List!Selected(shown, ranges)
                                       THEN [shown[p] EXCEPT !.crop = box]
                                       ELSE shown[p]]
  <2>1. \A p \in DOMAIN ids : shown'[p] = IF p \in List!Selected(shown, ranges)
                                          THEN [shown[p] EXCEPT !.crop = box]
                                          ELSE shown[p]
    BY <1>3, <1>5, <1>6, <1>7
  <2>2. shown' = [p \in DOMAIN ids |-> shown'[p]]
    BY <1>3 DEF Looks
  <2>. QED
    BY <1>6, <2>1, <2>2
<1>9. \A p \in List!Selected(shown, ranges) : box <= shown[p].media
  <2>1. List!Selected(shown, ranges) \subseteq DOMAIN shown
    BY DEF List!Selected
  <2>. QED
    BY <1>3, <1>5, <1>6, <1>7, <2>1
<1>10. List!Crop
  BY <1>2, <1>8, <1>9 DEF List!Crop, List!CanCrop, List!Cropped
<1>11. Legible(doc'.objects)
  <2>1. doc'.objects = o2
    BY <1>1 DEF InPlace
  <2>2. Legible(o2)
    BY <1>3, <1>5 DEF Legible
  <2>. QED
    BY <2>1, <2>2
<1>. QED
  BY <1>10, <1>11

-----------------------------------------------------------------------------
(* Painting over a page *)

\* unique_name: one of the suffixes is free, as there are more than names.
LEMMA FreshName ==
    ASSUME NEW names, IsFiniteSet(DOMAIN names), NEW T, Nat \subseteq T, NEW prefix \in Seq(T)
    PROVE  \E n \in Nat : /\ UniqueName(names, prefix) = Append(prefix, n)
                          /\ UniqueName(names, prefix) \notin DOMAIN names
<1>. DEFINE C == Cardinality(DOMAIN names)
            free == {n \in 0 .. C : Append(prefix, n) \notin DOMAIN names}
            f == [n \in 0 .. C |-> Append(prefix, n)]
<1>1. C \in Nat
  BY FS_CardinalityType
<1>2. IsFiniteSet(0 .. C) /\ Cardinality(0 .. C) = C + 1
  <2>. HIDE DEF C
  <2>. QED
    BY <1>1, FS_Interval
<1>3. \A m, n \in Nat : Append(prefix, m) = Append(prefix, n) => m = n
  <2>1. \A n \in Nat : n \in T
    OBVIOUS
  <2>2. \A n \in Nat : Append(prefix, n)[Len(prefix) + 1] = n
    BY <2>1, Appending
  <2>. QED
    BY <2>2
<1>. HIDE DEF C
<1>4. free # {}
  <2>1. SUFFICES ASSUME free = {} PROVE FALSE
    OBVIOUS
  <2>2. f \in [0 .. C -> DOMAIN names]
    BY <2>1
  <2>3. Cardinality(DOMAIN names) < Cardinality(0 .. C)
    BY <1>1, <1>2 DEF C
  <2>. HIDE DEF f
  <2>4. \E x, y \in 0 .. C : x # y /\ f[x] = f[y]
    BY <1>2, <2>2, <2>3, FS_PigeonHole
  <2>. QED
    BY <1>1, <1>3, <2>4 DEF f
<1>5. free \subseteq Nat
  BY <1>1
<1>6. Min(free) \in free
  <2>. HIDE DEF free
  <2>. QED
    BY <1>4, <1>5, Least
<1>. QED
  BY <1>5, <1>6 DEF UniqueName, C

\* What a viewer shows of a page, and of one that is painted over.
DrawnOver(page, ink, notes) == [page EXCEPT !.drawn = @ \o ink, !.annots = notes]
Picture(a, b, c, d, e) == [drawn |-> a, annots |-> b, rotate |-> c, crop |-> d, media |-> e]

\* What a picture has drawn, replaced.
LEMMA SetDrawn ==
    ASSUME NEW a, NEW b, NEW c, NEW d, NEW e, NEW y
    PROVE  [Picture(a, b, c, d, e) EXCEPT !.drawn = y] = Picture(y, b, c, d, e)
  BY DEF Picture

\* What annotations a picture has, replaced.
LEMMA SetNotes ==
    ASSUME NEW a, NEW b, NEW c, NEW d, NEW e, NEW y
    PROVE  [Picture(a, b, c, d, e) EXCEPT !.annots = y] = Picture(a, y, c, d, e)
  BY DEF Picture

\* Drawing over a picture adds to what is drawn, replaces the annotations, and
\* leaves the rest.
LEMMA PictureOver ==
    ASSUME NEW a, NEW b, NEW c, NEW d, NEW e, NEW ink, NEW notes
    PROVE  DrawnOver(Picture(a, b, c, d, e), ink, notes) = Picture(a \o ink, notes, c, d, e)
<1>. DEFINE x == Picture(a, b, c, d, e)
            over == a \o ink
            y == [x EXCEPT !.drawn = over]
<1>1. x.drawn = a
  BY DEF Picture
<1>. HIDE DEF over
<1>2. y = Picture(over, b, c, d, e)
  BY SetDrawn
<1>. HIDE DEF x
<1>3. [x EXCEPT !.drawn = @ \o ink, !.annots = notes] = [y EXCEPT !.annots = notes]
  BY <1>1 DEF over
<1>. HIDE DEF y
<1>4. [Picture(over, b, c, d, e) EXCEPT !.annots = notes] = Picture(over, notes, c, d, e)
  BY SetNotes
<1>5. [y EXCEPT !.annots = notes] = Picture(over, notes, c, d, e)
  BY <1>2, <1>4
<1>. QED
  BY <1>3, <1>5 DEF x, over, DrawnOver

\* A sequence that is appended to has one element more.
LEMMA ToSetAppend ==
    ASSUME NEW S, NEW s \in Seq(S), NEW x \in S
    PROVE  ToSet(Append(s, x)) = ToSet(s) \cup {x}
<1>. DEFINE t == Append(s, x)
            N == Len(s)
<1>1. /\ t \in Seq(S) /\ Len(t) = N + 1 /\ N \in Nat
      /\ \A i \in 1 .. N : t[i] = s[i]
      /\ t[N + 1] = x
  BY Appending
<1>2. DOMAIN t = 1 .. N + 1 /\ DOMAIN s = 1 .. N
  <2>. HIDE DEF t
  <2>. QED
    BY <1>1
<1>. HIDE DEF t, N
<1>3. 1 .. N + 1 = (1 .. N) \cup {N + 1}
  BY <1>1
<1>. QED
  BY <1>1, <1>2, <1>3 DEF ToSet, t

\* A page that is painted over: o2 has it with more names, none of which it
\* had, and with one more content stream.
PaintedOver(o2, o, i, f, s) ==
    /\ Touched(o2, o) /\ s \in DOMAIN o2
    /\ o2[i].contents = Append(o[i].contents, s)
    /\ DOMAIN o2[i].attributes = DOMAIN Inherited(o, i, MaxLevels) \cup {"resources"}
    /\ Named(o2[i].attributes) = Overlay(f, Named(Inherited(o, i, MaxLevels)))
    /\ \A k \in DOMAIN Inherited(o, i, MaxLevels) \ {"resources"} :
          o2[i].attributes[k] = Inherited(o, i, MaxLevels)[k]
    /\ DOMAIN f \cap DOMAIN Named(Inherited(o, i, MaxLevels)) = {} /\ IsFiniteSet(DOMAIN f)
    /\ o2[s].draws \in Seq(ToSet(o2[s].draws))
    /\ \A item \in ToSet(o2[s].draws) : "own" \in DOMAIN item \/ item.name \in DOMAIN f

\* It shows what it did, and over that what the new stream draws.
PaintedLooks(o2, o, i, f, s) ==
    LET found == Inherited(o, i, MaxLevels)
        names == Overlay(f, Named(found))
    IN /\ Look(o2, i) = DrawnOver(Look(o, i), Drawn(o2, names, s), Notes(o2, o2[i].annots))
       /\ Notes(o2, o[i].annots) = Notes(o, o[i].annots)
       /\ Look(o, i).annots = Notes(o, o[i].annots)
       /\ \E U : Look(o, i).drawn \in Seq(U) /\ Drawn(o2, names, s) \in Seq(U)
       /\ Readable(o2, o2[i], Inherited(o2, i, MaxLevels))

\* A page that is painted over, by names that were free, shows what it did and over
\* it what the new stream draws.
LEMMA PaintedLook ==
    ASSUME NEW o, NEW root, Woven(o, root, DOMAIN o), NEW i \in OfKind(o, "page"),
           Readable(o, o[i], Inherited(o, i, MaxLevels)),
           NEW o2, NEW f, NEW s, PaintedOver(o2, o, i, f, s)
    PROVE  PaintedLooks(o2, o, i, f, s)
<1>. DEFINE found2 == Inherited(o2, i, MaxLevels)
            found == Inherited(o, i, MaxLevels)
            names == Overlay(f, Named(found))
            contents == o[i].contents
<1>1. Touched(o2, o) /\ s \in DOMAIN o2 /\ o2[i].contents = Append(contents, s)
  BY DEF PaintedOver
<1>2. contents \in Seq(DOMAIN o2)
  BY <1>1 DEF Touched, Web, Shaped, OfKind
<1>3. SetOn(o2, o, i, "resources", names)
  <2>1. /\ DOMAIN o2[i].attributes = DOMAIN found \cup {"resources"}
        /\ \A k \in DOMAIN found \ {"resources"} : o2[i].attributes[k] = found[k]
    BY DEF PaintedOver
  <2>2. o2[i].attributes["resources"] = names
    <3>1. Named(o2[i].attributes) = names
      BY DEF PaintedOver
    <3>. HIDE DEF names
    <3>. QED
      BY <2>1, <3>1 DEF Named
  <2>. QED
    BY <2>1, <2>2 DEF SetOn
<1>. HIDE DEF names
<1>4. /\ DOMAIN found2 = DOMAIN found \cup {"resources"} /\ found2["resources"] = names
      /\ \A k : k # "resources" => Likewise(found2, found, k)
  <2>1. AlsoFound(found2, found, "resources", names)
    BY <1>1, <1>3, FoundSet
  <2>. QED
    BY <2>1 DEF AlsoFound
<1>5. /\ \A k \in DOMAIN contents : o2[contents[k]] = o[contents[k]]
      /\ \A name \in DOMAIN Named(found) : o2[Named(found)[name]] = o[Named(found)[name]]
      /\ Notes(o2, o[i].annots) = Notes(o, o[i].annots)
  BY <1>1, TouchedRefs
<1>6. Readable(o, o[i], found)
  OBVIOUS
<1>7. /\ DOMAIN f \cap DOMAIN Named(found) = {} /\ IsFiniteSet(DOMAIN f)
      /\ o2[s].draws \in Seq(ToSet(o2[s].draws))
      /\ \A item \in ToSet(o2[s].draws) : "own" \in DOMAIN item \/ item.name \in DOMAIN f
  BY DEF PaintedOver
<1>8. Look(o2, i) = PageView(o2, o2[i], found2) /\ Look(o, i) = PageView(o, o[i], found)
  BY DEF Look
<1>. HIDE DEF found2, found
<1>9. Named(found2) = names
  BY <1>4 DEF Named
<1>10. /\ DOMAIN names = DOMAIN f \cup DOMAIN Named(found)
       /\ \A name \in DOMAIN Named(found) : names[name] = Named(found)[name]
  BY <1>7 DEF names, Overlay
<1>11. Draws(o2, names, contents, o, Named(found), contents)
  BY <1>5, <1>10 DEF Draws
<1>12. /\ Ink(o2, names, contents) = Ink(o, Named(found), contents)
       /\ \A c \in ToSet(contents) :
             /\ o2[c].draws \in Seq(ToSet(o2[c].draws))
             /\ \A item \in ToSet(o2[c].draws) : "own" \in DOMAIN item \/ item.name \in DOMAIN names
  BY <1>6, <1>11, DrawsSame
<1>. HIDE DEF contents
<1>13. /\ Ink(o2, names, Append(contents, s)) = Ink(o2, names, contents) \o Drawn(o2, names, s)
       /\ \E U : Ink(o2, names, contents) \in Seq(U) /\ Drawn(o2, names, s) \in Seq(U)
  <2>1. \A c \in ToSet(contents) \cup {s} : o2[c].draws \in Seq(ToSet(o2[c].draws))
    BY <1>7, <1>12
  <2>. QED
    BY <1>1, <1>2, <2>1, InkAppended
<1>14. Look(o, i).drawn = Ink(o, Named(found), contents) /\ Look(o, i).annots = Notes(o, o[i].annots)
  BY <1>8, PageViewParts DEF contents
<1>15. /\ Value(found2, "rotate", 0) = Value(found, "rotate", 0)
       /\ Value(found2, "crop", None) = Value(found, "crop", None)
       /\ Value(found2, "media", None) = Value(found, "media", None)
  BY <1>4 DEF Value, Likewise
<1>16. Look(o2, i) = DrawnOver(Look(o, i), Drawn(o2, names, s), Notes(o2, o2[i].annots))
  <2>. DEFINE ink == Ink(o, Named(found), contents)
              more == Drawn(o2, names, s)
              r == Value(found, "rotate", 0) % 360
              c == Value(found, "crop", None)
              m == Value(found, "media", None)
              notes == Notes(o, o[i].annots)
              notes2 == Notes(o2, o2[i].annots)
  <2>1. Look(o2, i) = Picture(Ink(o2, names, Append(contents, s)), notes2, r, c, m)
    BY <1>1, <1>8, <1>9, <1>15, PageViewParts DEF Picture
  <2>2. Look(o, i) = Picture(ink, notes, r, c, m)
    BY <1>8, PageViewParts DEF contents, Picture
  <2>3. Ink(o2, names, Append(contents, s)) = ink \o more
    BY <1>12, <1>13
  <2>. HIDE DEF ink, more, r, c, m, notes, notes2
  <2>4. DrawnOver(Picture(ink, notes, r, c, m), more, notes2) = Picture(ink \o more, notes2, r, c, m)
    BY PictureOver
  <2>. QED
    BY <2>1, <2>2, <2>3, <2>4 DEF more, notes2
<1>17. Readable(o2, o2[i], found2)
  <2>1. IsFiniteSet(DOMAIN names)
    <3>1. IsFiniteSet(DOMAIN Named(found))
      BY <1>6 DEF Readable
    <3>. QED
      BY <1>7, <1>10, <3>1, FS_Union
  <2>2. ToSet(Append(contents, s)) = ToSet(contents) \cup {s}
    BY <1>1, <1>2, ToSetAppend
  <2>. QED
    BY <1>1, <1>7, <1>9, <1>10, <1>12, <2>1, <2>2 DEF Readable
<1>. QED
  BY <1>5, <1>12, <1>13, <1>14, <1>16, <1>17 DEF PaintedLooks, found, found2, names

-----------------------------------------------------------------------------
(* Watermark does to the list of pages what it promises *)

\* What a page looks like is a picture.
LEMMA LookPicture ==
    ASSUME NEW o, NEW i
    PROVE  \E r, c, m : Look(o, i) = Picture(Look(o, i).drawn, Look(o, i).annots, r, c, m)
<1>. DEFINE found == Inherited(o, i, MaxLevels)
            ink == Ink(o, Named(found), o[i].contents)
            notes == Notes(o, o[i].annots)
            r == Value(found, "rotate", 0) % 360
            c == Value(found, "crop", None)
            m == Value(found, "media", None)
<1>1. Look(o, i) = Picture(ink, notes, r, c, m)
  BY PageViewParts DEF Look, Picture
<1>. HIDE DEF ink, notes, r, c, m
<1>2. Look(o, i).drawn = ink /\ Look(o, i).annots = notes
  BY <1>1 DEF Picture
<1>. QED
  BY <1>1, <1>2

\* A mark is drawn over what there was.
MarkedOver(page, mark) == [page EXCEPT !.drawn = Append(@, mark)]

\* A picture drawn over by one mark is what the list of pages calls marked.
LEMMA PictureMarked ==
    ASSUME NEW U, NEW a \in Seq(U), NEW b, NEW c, NEW d, NEW e, NEW mark \in U
    PROVE  DrawnOver(Picture(a, b, c, d, e), <<mark>>, b) = MarkedOver(Picture(a, b, c, d, e), mark)
<1>. DEFINE x == Picture(a, b, c, d, e)
            over == Append(a, mark)
<1>1. a \o <<mark>> = over
  OBVIOUS
<1>. HIDE DEF over
<1>2. DrawnOver(x, <<mark>>, b) = Picture(a \o <<mark>>, b, c, d, e)
  BY PictureOver
<1>3. [x EXCEPT !.drawn = over] = Picture(over, b, c, d, e)
  BY SetDrawn
<1>4. x.drawn = a
  BY DEF Picture
<1>. HIDE DEF x
<1>5. MarkedOver(x, mark) = [x EXCEPT !.drawn = over]
  BY <1>4 DEF MarkedOver, over
<1>. QED
  BY <1>1, <1>2, <1>3, <1>5 DEF x

\* A stream that uses one name draws what the name stands for.
LEMMA DrawnMark ==
    ASSUME NEW o, NEW names, NEW s, NEW name, o[s].draws = <<Use(name)>>
    PROVE  Drawn(o, names, s) = <<o[names[name]].label>>
<1>. DEFINE draws == o[s].draws
            look == o[names[name]].label
<1>1. DOMAIN draws = {1} /\ draws[1].name = name /\ "own" \notin DOMAIN draws[1]
  BY DEF Use
<1>2. DOMAIN Drawn(o, names, s) = {1} /\ Drawn(o, names, s)[1] = look
  BY <1>1 DEF Drawn
<1>3. Drawn(o, names, s) = [k \in {1} |-> Drawn(o, names, s)[k]]
  BY <1>1 DEF Drawn
<1>4. <<look>> = [k \in {1} |-> look]
  OBVIOUS
<1>. HIDE DEF look
<1>. QED
  BY <1>2, <1>3, <1>4 DEF look

\* The name of the mark is one that the page did not have.
LEMMA MarkNameFree ==
    ASSUME NEW o, NEW i, IsFiniteSet(DOMAIN Named(Materialize(o, i).attributes))
    PROVE  MarkName(o, i) \notin DOMAIN Named(Materialize(o, i).attributes)
<1>. DEFINE names == Named(Materialize(o, i).attributes)
            T == {"state"} \cup Nat
            prefix == <<"state", 0>>
<1>1. prefix \in Seq(T) /\ Nat \subseteq T
  OBVIOUS
<1>. HIDE DEF names, T, prefix
<1>2. UniqueName(names, prefix) \notin DOMAIN names
  <2>1. IsFiniteSet(DOMAIN names)
    BY DEF names
  <2>. QED
    BY <1>1, <2>1, FreshName
<1>. QED
  BY <1>2 DEF MarkName, names, prefix

\* A page that has the mark.
OneMarked(o2, o, i, mark, state, s) ==
    /\ o2[state].label = mark /\ s \in DOMAIN o2 /\ o2[s].draws = <<Use(MarkName(o, i))>>
    /\ o2[i] = Painted(Materialize(o, i), [n \in {MarkName(o, i)} |-> state], s)

\* A page that is marked looks as it did, with the mark over it.
LEMMA MarkedLook ==
    ASSUME NEW o, NEW root, Woven(o, root, DOMAIN o), NEW o2, Touched(o2, o),
           NEW i \in OfKind(o, "page"), Readable(o, o[i], Inherited(o, i, MaxLevels)),
           NEW mark, NEW state, NEW s, OneMarked(o2, o, i, mark, state, s)
    PROVE  /\ Look(o2, i) = MarkedOver(Look(o, i), mark)
           /\ Readable(o2, o2[i], Inherited(o2, i, MaxLevels))
<1>. DEFINE x == Materialize(o, i)
            name == MarkName(o, i)
            f == [n \in {name} |-> state]
            found == Inherited(o, i, MaxLevels)
            K == DOMAIN o2
<1>0. /\ o2[state].label = mark /\ s \in K /\ o2[s].draws = <<Use(name)>>
      /\ o2[i] = Painted(x, f, s)
  BY DEF OneMarked
<1>1. Web(o, DOMAIN o) /\ i \in DOMAIN o /\ DOMAIN o \subseteq K
  BY DEF Woven, OfKind, Touched
<1>2. Shaped(x, K) /\ Restyled(x, o[i]) /\ x.attributes = found
  <2>1. Shaped(x, DOMAIN o) /\ Refers(o, DOMAIN o, x) /\ Restyled(x, o[i]) /\ x.attributes = found
    BY <1>1, MaterializeFacts
  <2>2. Within(o, DOMAIN o, o2, K)
    BY <1>1 DEF Within, Touched, Stays
  <2>. HIDE DEF x
  <2>. QED
    BY <2>1, <2>2, Wider
<1>3. IsFiniteSet(DOMAIN Named(found))
  BY DEF Readable
<1>4. name \notin DOMAIN Named(found)
  BY <1>2, <1>3, MarkNameFree
<1>. HIDE DEF x, found, name, K
<1>5. /\ o2[i].contents = Append(x.contents, s) /\ o2[i].annots = x.annots
      /\ DOMAIN o2[i].attributes = DOMAIN x.attributes \cup {"resources"}
      /\ Named(o2[i].attributes) = Overlay(f, Named(x.attributes))
      /\ \A k \in DOMAIN x.attributes \ {"resources"} : o2[i].attributes[k] = x.attributes[k]
  <2>1. o2[i] = Painted(x, f, s)
    BY <1>0
  <2>. HIDE DEF f
  <2>. QED
    BY <1>0, <1>2, <2>1, PaintedFacts
<1>6. DOMAIN f = {name} /\ f[name] = state
  OBVIOUS
<1>. HIDE DEF f
<1>7. PaintedOver(o2, o, i, f, s)
  <2>1. o2[i].contents = Append(o[i].contents, s)
    BY <1>2, <1>5 DEF Restyled
  <2>2. /\ DOMAIN o2[i].attributes = DOMAIN found \cup {"resources"}
        /\ Named(o2[i].attributes) = Overlay(f, Named(found))
        /\ \A k \in DOMAIN found \ {"resources"} : o2[i].attributes[k] = found[k]
    BY <1>2, <1>5
  <2>3. DOMAIN f \cap DOMAIN Named(found) = {} /\ IsFiniteSet(DOMAIN f)
    <3>1. IsFiniteSet({name})
      BY FS_Singleton
    <3>. QED
      BY <1>4, <1>6, <3>1
  <2>4. /\ o2[s].draws \in Seq(ToSet(o2[s].draws))
        /\ \A item \in ToSet(o2[s].draws) : item.name \in DOMAIN f
    <3>. DEFINE use == Use(name)
    <3>1. o2[s].draws = <<use>> /\ use.name = name
      BY <1>0 DEF Use
    <3>. HIDE DEF use
    <3>2. ToSet(<<use>>) = {use} /\ <<use>> \in Seq({use})
      BY DEF ToSet
    <3>. QED
      BY <1>6, <3>1, <3>2
  <2>. QED
    BY <1>0, <2>1, <2>2, <2>3, <2>4 DEF PaintedOver, found, K
<1>8. PaintedLooks(o2, o, i, f, s)
  BY <1>7, PaintedLook
<1>. DEFINE names == Overlay(f, Named(found))
<1>9. /\ Look(o2, i) = DrawnOver(Look(o, i), Drawn(o2, names, s), Notes(o2, o2[i].annots))
      /\ Notes(o2, o[i].annots) = Notes(o, o[i].annots)
      /\ Look(o, i).annots = Notes(o, o[i].annots)
      /\ \E U : Look(o, i).drawn \in Seq(U) /\ Drawn(o2, names, s) \in Seq(U)
      /\ Readable(o2, o2[i], Inherited(o2, i, MaxLevels))
  BY <1>8 DEF PaintedLooks, found
<1>10. names[name] = state
  BY <1>6 DEF Overlay
<1>. HIDE DEF names
<1>11. Drawn(o2, names, s) = <<mark>>
  BY <1>0, <1>10, DrawnMark
<1>12. o2[i].annots = o[i].annots
  BY <1>2, <1>5 DEF Restyled
<1>13. Look(o2, i) = MarkedOver(Look(o, i), mark)
  <2>. DEFINE p == Look(o, i)
  <2>1. PICK U : p.drawn \in Seq(U) /\ <<mark>> \in Seq(U)
    BY <1>9, <1>11
  <2>2. mark \in U
    <3>1. <<mark>>[1] \in U
      BY <2>1
    <3>. QED
      BY <3>1
  <2>3. PICK r, c, m : p = Picture(p.drawn, p.annots, r, c, m)
    BY LookPicture
  <2>4. Look(o2, i) = DrawnOver(p, <<mark>>, p.annots)
    BY <1>9, <1>11, <1>12
  <2>. HIDE DEF p
  <2>5. DrawnOver(Picture(p.drawn, p.annots, r, c, m), <<mark>>, p.annots)
           = MarkedOver(Picture(p.drawn, p.annots, r, c, m), mark)
    BY <2>1, <2>2, PictureMarked
  <2>. QED
    BY <2>3, <2>4, <2>5 DEF p
<1>. QED
  BY <1>9, <1>13

\* watermark.rs draws the mark over the pages that were asked for.
LEMMA WatermarkLists ==
    ASSUME Good(doc), Legible(doc.objects), shown = View(doc),
           NEW ranges \in SeqOf(Ranges, 2), NEW mark, Watermark(ranges, mark)
    PROVE  List!Watermark /\ Legible(doc'.objects)
<1>. DEFINE o == doc.objects
            ids == PageIds(doc)
            selected == SelectedPages(ranges)
<1>1. PICK o2, state : InPlace(o2) /\ MarkedWith(o2, o, selected, mark, state)
  BY WatermarkInPlace
<1>2. /\ \A i \in DOMAIN ranges : ValidRange(ranges[i])
      /\ shown' = View(doc')
      /\ request' = [op |-> "watermark", ranges |-> ranges, mark |-> mark]
  BY DEF Watermark, Answer
<1>3. /\ shown = Looks(o, ids) /\ shown' = Looks(o2, ids)
      /\ OfKind(o2, "page") = OfKind(o, "page")
      /\ \A p \in DOMAIN ids : ids[p] \in OfKind(o, "page")
  BY <1>1, <1>2, InPlaceHands
<1>4. Woven(o, doc.root, DOMAIN o) /\ Touched(o2, o)
  BY <1>1, GoodFacts DEF InPlace
<1>. HIDE DEF selected, ids
<1>5. ASSUME NEW i \in OfKind(o, "page")
      PROVE  /\ Look(o2, i) = IF i \in selected THEN MarkedOver(Look(o, i), mark) ELSE Look(o, i)
             /\ Readable(o2, o2[i], Inherited(o2, i, MaxLevels))
  <2>1. Readable(o, o[i], Inherited(o, i, MaxLevels)) /\ i \in DOMAIN o
    BY DEF Legible, OfKind
  <2>2. CASE i \in selected
    <3>. DEFINE s == StreamOf(state, selected, i)
    <3>1. OneMarked(o2, o, i, mark, state, s)
      BY <1>1, <2>2 DEF MarkedWith, OneMarked
    <3>. HIDE DEF s
    <3>. QED
      BY <1>4, <2>1, <2>2, <3>1, MarkedLook
  <2>3. CASE i \notin selected
    <3>1. o2[i] = o[i]
      BY <1>1, <2>3 DEF MarkedWith
    <3>. QED
      BY <1>4, <2>1, <2>3, <3>1, UntouchedLook
  <2>. QED
    BY <2>2, <2>3
<1>6. DOMAIN shown = DOMAIN ids /\ DOMAIN shown' = DOMAIN ids
      /\ \A p \in DOMAIN ids : shown[p] = Look(o, ids[p]) /\ shown'[p] = Look(o2, ids[p])
  BY <1>3 DEF Looks
<1>7. \A p \in DOMAIN ids : ids[p] \in selected <=> p \in List!Selected(shown, ranges)
  BY <1>2, <1>4, <1>6, SelectedSame DEF ids, selected
<1>8. shown' = [p \in DOMAIN shown |-> IF p \in List!Selected(shown, ranges)
                                       THEN MarkedOver(shown[p], mark) ELSE shown[p]]
  <2>1. \A p \in DOMAIN ids : shown'[p] = IF p \in List!Selected(shown, ranges)
                                          THEN MarkedOver(shown[p], mark) ELSE shown[p]
    BY <1>3, <1>5, <1>6, <1>7
  <2>2. shown' = [p \in DOMAIN ids |-> shown'[p]]
    BY <1>3 DEF Looks
  <2>. QED
    BY <1>6, <2>1, <2>2
<1>9. List!Watermark
  BY <1>2, <1>8 DEF List!Watermark, List!Marked, MarkedOver
<1>10. Legible(doc'.objects)
  <2>1. doc'.objects = o2
    BY <1>1 DEF InPlace
  <2>2. Legible(o2)
    BY <1>3, <1>5 DEF Legible
  <2>. QED
    BY <2>1, <2>2
<1>. QED
  BY <1>9, <1>10

-----------------------------------------------------------------------------
(* What is shown under a new and flat tree *)

\* Above a page under a new and flat tree there is the tree and nothing else.
LEMMA PlantedAbove ==
    ASSUME NEW e, NEW o, NEW tree, Woven(e, tree, DOMAIN e), Planted(e, DOMAIN e, o, tree),
           NEW i \in OfKind(o, "page")
    PROVE  /\ i \in OfKind(e, "page") /\ i # 0 /\ Above(e, i, 0) = i
           /\ \A n \in Nat \ {0} : Above(e, i, n) = 0 \/ Above(e, i, n) = tree
<1>1. i \in DOMAIN e /\ Elsewhere(e[i], Materialize(o, i))
  BY DEF Planted
<1>2. i \in OfKind(e, "page")
  <2>1. Materialize(o, i).kind = "page"
    <3>1. o[i].kind = "page"
      BY DEF OfKind
    <3>. QED
      BY <3>1 DEF Materialize
  <2>. QED
    BY <1>1, <2>1 DEF Elsewhere, OfKind
<1>3. Upwards(e, DOMAIN e)
  BY WebUpwards DEF Woven
<1>4. i # 0 /\ Above(e, i, 0) = i
  BY <1>1, <1>3, AboveRec DEF Upwards
<1>5. \A j \in OfKind(e, "pages") : j = tree
  BY DEF Planted, OfKind
<1>6. \A n \in Nat \ {0} : Above(e, i, n) = 0 \/ Above(e, i, n) \in OfKind(e, "pages")
  BY <1>2, WayUp
<1>. QED
  BY <1>2, <1>4, <1>5, <1>6

\* A page that has all it inherited looks the same there.
LEMMA PlantedLook ==
    ASSUME NEW e, NEW o, NEW tree, Woven(e, tree, DOMAIN e), Web(o, DOMAIN o),
           Planted(e, DOMAIN e, o, tree),
           NEW i \in OfKind(o, "page"), Readable(o, o[i], Inherited(o, i, MaxLevels))
    PROVE  Look(e, i) = Look(o, i) /\ Readable(e, e[i], Inherited(e, i, MaxLevels))
<1>. DEFINE x == Materialize(o, i)
            D == DOMAIN o
            found == Inherited(o, i, MaxLevels)
            found2 == Inherited(e, i, MaxLevels)
<1>0. MaxLevels \in Nat /\ i \in D
  BY LevelsAssumption DEF OfKind
<1>1. Shaped(x, D) /\ Refers(o, D, x) /\ Restyled(x, o[i]) /\ x.attributes = found
  BY <1>0, MaterializeFacts
<1>2. i \in DOMAIN e /\ Elsewhere(e[i], x) /\ e[tree].attributes = <<>>
  BY DEF Planted
<1>3. /\ i # 0 /\ Above(e, i, 0) = i
      /\ \A n \in Nat \ {0} : Above(e, i, n) = 0 \/ Above(e, i, n) = tree
  BY PlantedAbove
<1>4. \A j \in D : o[j].kind \notin {"catalog", "page", "pages"} => j \in DOMAIN e /\ e[j] = o[j]
  BY DEF Planted
<1>. HIDE DEF x
<1>5. Agree(found2, e[i].attributes)
  <2>1. DOMAIN e[i].attributes \subseteq Attributes
    BY <1>1, <1>2 DEF Elsewhere, Shaped, Proper
  <2>2. ASSUME NEW n \in 1 .. MaxLevels, Above(e, i, n) # 0
        PROVE  DOMAIN e[Above(e, i, n)].attributes \subseteq DOMAIN e[i].attributes
    <3>1. Above(e, i, n) = tree
      BY <1>0, <1>3, <2>2
    <3>2. DOMAIN <<>> = {}
      OBVIOUS
    <3>. QED
      BY <1>2, <3>1, <3>2
  <2>. QED
    BY <1>0, <1>3, <2>1, <2>2, InheritedOwn
<1>6. \A name \in DOMAIN Named(found) : Named(found)[name] \in In(o, D, {"state", "form"})
  BY <1>1 DEF Refers
<1>7. e[i].attributes = found
  BY <1>1, <1>2 DEF Elsewhere
<1>. HIDE DEF found, found2
<1>8. DOMAIN found2 = DOMAIN found /\ \A key \in DOMAIN found : found2[key] = found[key]
  BY <1>5, <1>7 DEF Agree
<1>9. Named(found2) = Named(found)
  BY <1>8 DEF Named
<1>10. e[i].contents = o[i].contents /\ e[i].annots = o[i].annots
  BY <1>1, <1>2 DEF Elsewhere, Restyled
<1>11. \A k \in DOMAIN o[i].contents : e[o[i].contents[k]] = o[o[i].contents[k]]
  <2>1. Refers(o, D, o[i])
    BY <1>0 DEF Web
  <2>2. \A k \in DOMAIN o[i].contents : o[i].contents[k] \in In(o, D, {"content"})
    BY <2>1 DEF Refers, ToSet
  <2>. QED
    BY <1>4, <2>2 DEF In
<1>12. \A name \in DOMAIN Named(found) : e[Named(found)[name]] = o[Named(found)[name]]
  BY <1>4, <1>6 DEF In
<1>13. \A k \in DOMAIN o[i].annots : Note(e, o[i].annots[k]) = Note(o, o[i].annots[k])
  <2>1. Refers(o, D, o[i]) /\ \A j \in D : Refers(o, D, o[j])
    BY <1>0 DEF Web
  <2>2. ASSUME NEW k \in DOMAIN o[i].annots PROVE Note(e, o[i].annots[k]) = Note(o, o[i].annots[k])
    <3>. DEFINE a == o[i].annots[k]
    <3>1. a \in In(o, D, Annotations)
      BY <2>1 DEF Refers, ToSet
    <3>2. a \in D /\ e[a] = o[a]
      BY <1>4, <3>1 DEF In, Annotations
    <3>3. o[a].appearance \in In(o, D, {"form"}) \cup {0}
      BY <2>1, <3>2 DEF Refers
    <3>4. o[a].appearance # 0 => e[o[a].appearance] = o[o[a].appearance]
      BY <1>4, <3>3 DEF In
    <3>. HIDE DEF a
    <3>. QED
      BY <3>2, <3>4 DEF Note, a
  <2>. QED
    BY <2>2
<1>14. Reads(e, e[i], found2, o, o[i], found)
  BY <1>8, <1>9, <1>10, <1>11, <1>12, <1>13 DEF Reads, Likewise
<1>15. PageView(e, e[i], found2) = PageView(o, o[i], found) /\ Readable(e, e[i], found2)
  <2>1. Readable(o, o[i], found)
    BY DEF found
  <2>. QED
    BY <1>14, <2>1, ReadsSame
<1>. QED
  BY <1>15 DEF Look, found, found2

\* What is handed back of a document under a flat tree.
LEMMA FlatView ==
    ASSUME NEW e, NEW o2, NEW K, NEW tree, NEW trailer, Tidied(e, o2, tree, K, trailer),
           \A c \in ToSet(o2[tree].kids) : c \in In(o2, K, {"page"}),
           Legible(Narrow(o2, K))
    PROVE  Legible(e.objects) /\ View(e) = Looks(Narrow(o2, K), o2[tree].kids)
<1>. DEFINE q == Narrow(o2, K)
<1>1. /\ e = Renumbered(Pruned([objects |-> o2, root |-> tree], trailer), 1) /\ trailer \in BOOLEAN
      /\ IsFiniteSet(DOMAIN o2) /\ K \in SUBSET DOMAIN o2 /\ Woven(o2, tree, K)
      /\ OfKind(o2, "catalog") \cup OfKind(o2, "info") \subseteq K
  BY DEF Tidied
<1>2. Legible(e.objects) /\ View(e) = Looks(q, Leaves(q, MaxLevels)[tree])
  BY <1>1, TidiedView
<1>3. Web(q, DOMAIN q) /\ DOMAIN q = K /\ \A i \in K : q[i] = o2[i]
  BY <1>1, NarrowWeb DEF Woven
<1>4. tree \in K /\ o2[tree].kind = "pages"
  BY <1>1 DEF Woven, Rooted, In
<1>. HIDE DEF q
<1>5. q[tree].kids = o2[tree].kids /\ q[tree].kind = "pages" /\ tree \in DOMAIN q
      /\ \A c \in ToSet(q[tree].kids) : q[c].kind = "page"
  BY <1>3, <1>4 DEF In
<1>6. MaxLevels \in Nat \ {0}
  BY LevelsAssumption
<1>7. Leaves(q, MaxLevels)[tree] = q[tree].kids
  BY <1>3, <1>5, <1>6, FlatLeaves
<1>. QED
  BY <1>2, <1>5, <1>7 DEF q

\* It is so when only the part under the tree is looked at.
LEMMA PlantedNarrow ==
    ASSUME NEW o2, NEW K, NEW o, NEW tree, Planted(o2, K, o, tree)
    PROVE  Planted(Narrow(o2, K), DOMAIN Narrow(o2, K), o, tree)
<1>1. DOMAIN Narrow(o2, K) = K /\ \A i \in K : Narrow(o2, K)[i] = o2[i]
  BY DEF Narrow
<1>. QED
  BY <1>1 DEF Planted

-----------------------------------------------------------------------------
(* Reorder does to the list of pages what it promises *)

\* An order that validate_order accepts names every page once.
LEMMA ValidIsOrder ==
    ASSUME NEW order, NEW n \in Nat, Len(order) = n,
           Cardinality(ToSet(order)) = Len(order), ToSet(order) \subseteq 1 .. n
    PROVE  List!IsOrder(order, n)
<1>1. IsFiniteSet(1 .. n) /\ Cardinality(1 .. n) = n
  BY FS_Interval
<1>2. ToSet(order) \in SUBSET (1 .. n)
  OBVIOUS
<1>3. ToSet(order) = 1 .. n
  BY <1>1, <1>2, FS_Subset
<1>. QED
  BY <1>3 DEF List!IsOrder, List!ToSet, ToSet

\* A document shows as many pages as it has.
LEMMA LooksLength ==
    ASSUME NEW o, NEW S, NEW ids \in Seq(S)
    PROVE  Len(Looks(o, ids)) = Len(ids) /\ DOMAIN Looks(o, ids) = DOMAIN ids
<1>. DEFINE N == Len(ids)
<1>1. N \in Nat /\ DOMAIN ids = 1 .. N
  OBVIOUS
<1>2. Looks(o, ids) = [p \in 1 .. N |-> Look(o, ids[p])]
  BY <1>1 DEF Looks
<1>. HIDE DEF N
<1>3. Len([p \in 1 .. N |-> Look(o, ids[p])]) = N
  BY <1>1
<1>. QED
  BY <1>1, <1>2, <1>3 DEF N

\* reorder.rs puts the pages in the order that was asked for, each once.
LEMMA ReorderLists ==
    ASSUME Good(doc), Legible(doc.objects), shown = View(doc),
           NEW order \in SeqOf(0 .. MaxPages, MaxPages), Reorder(order)
    PROVE  List!Reorder /\ Legible(doc'.objects)
<1>. DEFINE o == doc.objects
            ids == PageIds(doc)
            kids == InOrderOf(order)
            P == OfKind(o, "page")
<1>1. PICK o2, K, tree : /\ Tidied(doc', o2, tree, K, TRUE) /\ Planted(o2, K, o, tree)
                         /\ o2[tree].kids = kids /\ In(o2, K, {"page"}) = P
  BY ReorderBuilt
<1>2. ValidOrder(order) /\ shown' = View(doc') /\ request' = [op |-> "reorder", order |-> order]
  BY DEF Reorder, Answer
<1>3. Woven(o, doc.root, DOMAIN o) /\ Web(o, DOMAIN o)
  BY GoodFacts
<1>4. kids \in Seq(P) /\ ToSet(kids) = P /\ DOMAIN kids = DOMAIN order
  BY <1>2, <1>3, OrderOfPages DEF InOrderOf
<1>5. shown = Looks(o, ids) /\ ids \in Seq(DOMAIN o)
  BY <1>3, ViewOf, WovenPages
<1>6. \A p \in DOMAIN order : kids[p] = ids[order[p]]
  BY DEF InOrderOf
<1>. DEFINE q == Narrow(o2, K)
<1>7. Woven(q, tree, DOMAIN q) /\ DOMAIN q = K /\ \A i \in K : q[i] = o2[i]
  BY <1>1, NarrowWoven DEF Tidied, Narrow
<1>8. Planted(q, DOMAIN q, o, tree)
  BY <1>1, PlantedNarrow
<1>. HIDE DEF q, kids, ids, P
<1>9. ASSUME NEW i \in P PROVE Look(q, i) = Look(o, i) /\ Readable(q, q[i], Inherited(q, i, MaxLevels))
  <2>1. Readable(o, o[i], Inherited(o, i, MaxLevels))
    BY DEF Legible, P
  <2>. QED
    BY <1>3, <1>7, <1>8, <2>1, PlantedLook DEF P
<1>10. OfKind(q, "page") = P
  BY <1>1, <1>7 DEF In, OfKind
<1>11. Legible(q)
  BY <1>9, <1>10 DEF Legible
<1>12. Legible(doc'.objects) /\ View(doc') = Looks(q, kids)
  <2>1. \A c \in ToSet(o2[tree].kids) : c \in In(o2, K, {"page"})
    BY <1>1, <1>4
  <2>. HIDE DEF o
  <2>2. Legible(doc'.objects) /\ View(doc') = Looks(q, o2[tree].kids)
    BY <1>1, <1>11, <2>1, FlatView DEF q
  <2>. QED
    BY <1>1, <2>2
<1>13. Len(shown) = Len(ids) /\ DOMAIN shown = DOMAIN ids /\ DOMAIN ids = 1 .. Len(ids) /\ Len(ids) \in Nat
  BY <1>5, LooksLength
<1>14. List!IsOrder(order, Len(shown)) /\ ToSet(order) \subseteq DOMAIN ids
  <2>1. /\ Len(order) = Len(ids) /\ Cardinality(ToSet(order)) = Len(order)
        /\ ToSet(order) \subseteq 1 .. Len(ids)
    BY <1>2 DEF ValidOrder, ids
  <2>2. List!IsOrder(order, Len(ids))
    BY <1>13, <2>1, ValidIsOrder
  <2>. QED
    BY <1>13, <2>1, <2>2
<1>15. View(doc') = [p \in DOMAIN order |-> shown[order[p]]]
  <2>1. ASSUME NEW p \in DOMAIN order PROVE Look(q, kids[p]) = shown[order[p]]
    <3>1. kids[p] \in P
      BY <1>4 DEF ToSet
    <3>2. order[p] \in DOMAIN ids
      BY <1>14 DEF ToSet
    <3>. QED
      BY <1>5, <1>6, <1>9, <3>1, <3>2 DEF Looks
  <2>. QED
    BY <1>4, <1>12, <2>1 DEF Looks
<1>16. List!Reorder
  BY <1>2, <1>14, <1>15 DEF List!Reorder, List!Reordered
<1>. QED
  BY <1>12, <1>16

-----------------------------------------------------------------------------
(* Split does to the list of pages what it promises *)

\* A page that is left looks as it did.
LEMMA LeftLook ==
    ASSUME NEW e, NEW o, Web(e, DOMAIN e), Web(o, DOMAIN o), LeftOf(e, o, DOMAIN e),
           NEW i \in DOMAIN e, Readable(o, o[i], Inherited(o, i, MaxLevels))
    PROVE  Look(e, i) = Look(o, i) /\ Readable(e, e[i], Inherited(e, i, MaxLevels))
<1>. DEFINE K == DOMAIN e
            D == DOMAIN o
            found == Inherited(o, i, MaxLevels)
<1>1. MaxLevels \in Nat /\ K \subseteq D /\ i \in K
  BY LevelsAssumption DEF LeftOf
<1>2. \A j \in K : /\ e[j].contents = o[j].contents /\ e[j].annots = o[j].annots
                   /\ e[j].draws = o[j].draws /\ e[j].label = o[j].label
                   /\ e[j].kind = o[j].kind /\ e[j].appearance = o[j].appearance
                   /\ e[j].parent = o[j].parent /\ e[j].attributes = o[j].attributes
  BY DEF LeftOf, Relisted
<1>3. Inherited(e, i, MaxLevels) = found
  <2>1. Upwards(e, K)
    BY WebUpwards
  <2>2. \A n \in Nat : Above(e, i, n) \in K \cup {0}
    BY <1>1, <2>1, AboveRec
  <2>3. \A n \in Nat : Above(o, i, n) = Above(e, i, n)
    <3>1. \A j \in K : o[j].parent = e[j].parent
      BY <1>2
    <3>. HIDE DEF K
    <3>2. \A j \in K, n \in Nat : Above(o, j, n) = Above(e, j, n)
      BY <2>1, <3>1, SameAbove
    <3>. QED
      BY <1>1, <3>2
  <2>4. \A n \in 0 .. MaxLevels :
           /\ Above(e, i, n) = Above(o, i, n)
           /\ Above(o, i, n) # 0 => e[Above(o, i, n)].attributes = o[Above(o, i, n)].attributes
    <3>1. \A n \in 0 .. MaxLevels : n \in Nat
      BY <1>1
    <3>2. \A n \in 0 .. MaxLevels : Above(e, i, n) = Above(o, i, n) /\ Above(o, i, n) \in K \cup {0}
      BY <2>2, <2>3, <3>1
    <3>. QED
      BY <1>2, <3>2
  <2>. QED
    BY <1>1, <2>4, InheritedSame
<1>4. Shaped(e[i], K) /\ Refers(e, K, e[i]) /\ \A j \in K : Refers(e, K, e[j])
  BY <1>1 DEF Web
<1>5. \A name \in DOMAIN Named(found) : Named(found)[name] \in K
  <2>1. \A name \in DOMAIN Named(found) : Named(found)[name] \in In(e, K, {"state", "form"})
    BY <1>1, <1>3, InheritedProper
  <2>. QED
    BY <2>1 DEF In
<1>. HIDE DEF found, K
<1>6. \A k \in DOMAIN o[i].contents : o[i].contents[k] \in K
  BY <1>1, <1>2, <1>4 DEF Refers, In, ToSet
<1>7. \A k \in DOMAIN o[i].annots : Note(e, o[i].annots[k]) = Note(o, o[i].annots[k])
  <2>1. \A k \in DOMAIN o[i].annots : o[i].annots[k] \in K
    BY <1>1, <1>2, <1>4 DEF Refers, In, ToSet
  <2>2. \A j \in K : o[j].appearance \in K \cup {0}
    BY <1>2, <1>4 DEF Refers, In
  <2>3. ASSUME NEW a \in K PROVE Note(e, a) = Note(o, a)
    BY <1>2, <2>2 DEF Note
  <2>. QED
    BY <2>1, <2>3
<1>8. Reads(e, e[i], found, o, o[i], found)
  BY <1>1, <1>2, <1>5, <1>6, <1>7 DEF Reads, Likewise
<1>9. PageView(e, e[i], found) = PageView(o, o[i], found) /\ Readable(e, e[i], found)
  <2>1. Readable(o, o[i], found)
    BY DEF found
  <2>. QED
    BY <1>8, <2>1, ReadsSame
<1>. QED
  BY <1>3, <1>9 DEF Look, found

\* The numbers of a range in ascending order.
LEMMA RangeInOrder ==
    ASSUME NEW a \in Nat, NEW b \in Nat, a <= b
    PROVE  /\ InOrder(a .. b) = [n \in 1 .. b - a + 1 |-> a + n - 1]
           /\ b - a + 1 \in Nat
<1>. DEFINE N == b - a + 1
            s == [n \in 1 .. N |-> a + n - 1]
<1>1. N \in Nat /\ a .. b \subseteq Nat
  OBVIOUS
<1>2. IsFiniteSet(a .. b)
  BY FS_Interval
<1>3. s \in [1 .. N -> a .. b]
  OBVIOUS
<1>4. ToSet(s) = a .. b
  <2>1. ASSUME NEW x \in a .. b PROVE x \in ToSet(s)
    <3>1. x - a + 1 \in 1 .. N /\ s[x - a + 1] = x
      OBVIOUS
    <3>2. DOMAIN s = 1 .. N
      OBVIOUS
    <3>. HIDE DEF s, N
    <3>. QED
      BY <3>1, <3>2 DEF ToSet
  <2>2. ToSet(s) \subseteq a .. b
    BY <1>3 DEF ToSet
  <2>. QED
    BY <2>1, <2>2
<1>5. \A m, n \in 1 .. N : m < n => s[m] < s[n]
  OBVIOUS
<1>. HIDE DEF s, N
<1>6. s = InOrder(a .. b)
  BY <1>1, <1>2, <1>3, <1>4, <1>5, InOrderUnique
<1>. QED
  BY <1>1, <1>6 DEF s, N

Leaving(ids, K, a, b) ==
    /\ IsInjective(ids) /\ a \in Nat /\ b \in Nat /\ a # 0 /\ a <= b /\ b <= Len(ids)
    /\ \A p \in DOMAIN ids : ids[p] \in K <=> p \in a .. b

\* What a range leaves of a list without repetitions.
LEMMA OnlyRange ==
    ASSUME NEW S, NEW ids \in Seq(S), NEW a, NEW b, NEW K, Leaving(ids, K, a, b)
    PROVE  Only(ids, K) = [n \in 1 .. b - a + 1 |-> ids[a + n - 1]]
<1>0. /\ IsInjective(ids) /\ a \in Nat /\ b \in Nat /\ a # 0 /\ a <= b /\ b <= Len(ids)
      /\ \A p \in DOMAIN ids : ids[p] \in K <=> p \in a .. b
  BY DEF Leaving
<1>1. DOMAIN ids = 1 .. Len(ids) /\ Len(ids) \in Nat
  OBVIOUS
<1>2. {p \in DOMAIN ids : ids[p] \in K} = a .. b
  <2>1. a .. b \subseteq DOMAIN ids
    BY <1>0, <1>1
  <2>. QED
    BY <1>0, <2>1
<1>. DEFINE at == InOrder(a .. b)
<1>3. at = [n \in 1 .. b - a + 1 |-> a + n - 1]
  BY <1>0, RangeInOrder
<1>4. Only(ids, K) = [n \in DOMAIN at |-> ids[at[n]]]
  BY <1>2 DEF Only
<1>. HIDE DEF at
<1>. QED
  BY <1>3, <1>4

\* split.rs makes a document of the pages of a range, in their order.
LEMMA SplitLists ==
    ASSUME Good(doc), Legible(doc.objects), shown = View(doc),
           NEW range \in Ranges, Split(range)
    PROVE  List!Split /\ Legible(doc'.objects)
<1>. DEFINE o == doc.objects
            D == DOMAIN o
            ids == PageIds(doc)
            K == D \ Gone(range)
            a == range.start
            b == range.end
            P == OfKind(o, "page")
<1>1. PICK left : Tidied(doc', left, doc.root, K, TRUE) /\ LeftOf(left, o, K)
  BY SplitBuilt
<1>2. ValidRange(range) /\ shown' = View(doc') /\ request' = [op |-> "split", range |-> range]
  BY DEF Split, Answer
<1>3. Woven(o, doc.root, D) /\ Web(o, D) /\ doc.root \in D
  BY GoodFacts DEF Woven, Rooted, In
<1>4. shown = Looks(o, ids) /\ ids \in Seq(D) /\ IsInjective(ids) /\ ToSet(ids) = P
  BY <1>3, ViewOf, WovenPages
<1>5. /\ a \in Nat /\ b \in Nat /\ a # 0 /\ a <= b /\ b <= Len(ids)
  BY <1>2, RangesAssumption DEF ValidRange
<1>6. Gone(range) = {ids[p] : p \in DOMAIN ids \ (a .. b)}
  BY DEF Gone
<1>7. \A i \in D : o[i].kind # "page" => i \in K
  BY <1>1 DEF LeftOf
<1>. DEFINE q == Narrow(left, K)
<1>8. Woven(q, doc.root, DOMAIN q) /\ DOMAIN q = K /\ \A i \in K : q[i] = left[i]
  BY <1>1, NarrowWoven DEF Tidied, Narrow
<1>. HIDE DEF q
<1>9. LeftOf(q, o, DOMAIN q) /\ Web(q, DOMAIN q)
  BY <1>1, <1>8 DEF LeftOf, Woven
<1>10. doc.root \in K
  BY <1>8 DEF Woven, Rooted, In
<1>. HIDE DEF ids, a, b
<1>11. \A p \in DOMAIN ids : ids[p] \in K <=> p \in a .. b
  <2>1. \A p \in DOMAIN ids : ids[p] \in D
    BY <1>4
  <2>2. \A p, r \in DOMAIN ids : ids[p] = ids[r] => p = r
    BY <1>4 DEF IsInjective
  <2>. QED
    BY <1>6, <2>1, <2>2
<1>. HIDE DEF K, P
<1>12. ASSUME NEW i \in K, i \in P
       PROVE  Look(q, i) = Look(o, i) /\ Readable(q, q[i], Inherited(q, i, MaxLevels))
  <2>1. Readable(o, o[i], Inherited(o, i, MaxLevels))
    BY <1>12 DEF Legible, P
  <2>. QED
    BY <1>3, <1>8, <1>9, <2>1, LeftLook
<1>13. Legible(q)
  <2>1. \A i \in OfKind(q, "page") : i \in K /\ i \in P
    BY <1>8, <1>9 DEF OfKind, LeftOf, Relisted, P
  <2>. QED
    BY <1>12, <2>1 DEF Legible
<1>14. Legible(doc'.objects) /\ View(doc') = Looks(q, Leaves(q, MaxLevels)[doc.root])
  <2>. HIDE DEF o
  <2>1. /\ doc' = Renumbered(Pruned([objects |-> left, root |-> doc.root], TRUE), 1) /\ TRUE \in BOOLEAN
        /\ IsFiniteSet(DOMAIN left) /\ K \in SUBSET DOMAIN left /\ Woven(left, doc.root, K)
        /\ OfKind(left, "catalog") \cup OfKind(left, "info") \subseteq K
    BY <1>1 DEF Tidied
  <2>. QED
    BY <1>13, <2>1, TidiedView DEF q
<1>15. Leaves(q, MaxLevels)[doc.root] = Only(ids, K)
  <2>1. MaxLevels \in Nat
    BY LevelsAssumption
  <2>2. Thinned(q, o, K)
    BY <1>3, <1>7, <1>8, <1>9 DEF Thinned, LeftOf, Relisted
  <2>3. Leaves(q, MaxLevels)[doc.root] = Only(Leaves(o, MaxLevels)[doc.root], K)
    BY <1>10, <2>1, <2>2, LeavesThinned
  <2>. QED
    BY <2>3 DEF PageIds, ids
<1>. DEFINE N == b - a + 1
<1>16. Only(ids, K) = [n \in 1 .. N |-> ids[a + n - 1]]
  <2>1. Leaving(ids, K, a, b)
    BY <1>4, <1>5, <1>11 DEF Leaving
  <2>. QED
    BY <1>4, <2>1, OnlyRange
<1>17. View(doc') = [n \in 1 .. N |-> shown[a + n - 1]]
  <2>1. ASSUME NEW n \in 1 .. N PROVE Look(q, ids[a + n - 1]) = shown[a + n - 1]
    <3>1. a + n - 1 \in DOMAIN ids /\ a + n - 1 \in a .. b
      BY <1>4, <1>5
    <3>. DEFINE p == a + n - 1
    <3>. HIDE DEF p, N
    <3>2. ids[p] \in K /\ ids[p] \in P
      BY <1>4, <1>11, <3>1 DEF ToSet, p
    <3>3. Look(q, ids[p]) = Look(o, ids[p])
      BY <1>12, <3>2
    <3>4. shown[p] = Look(o, ids[p])
      BY <1>4, <3>1 DEF Looks, p
    <3>. QED
      BY <3>3, <3>4 DEF p
  <2>. HIDE DEF N
  <2>2. View(doc') = Looks(q, [n \in 1 .. N |-> ids[a + n - 1]])
    BY <1>14, <1>15, <1>16
  <2>3. View(doc') = [n \in 1 .. N |-> Look(q, ids[a + n - 1])]
    BY <2>2 DEF Looks
  <2>. QED
    BY <2>1, <2>3
<1>18. shown \in Seq({shown[p] : p \in DOMAIN shown}) /\ Len(shown) = Len(ids)
  <2>1. Len(shown) = Len(ids) /\ DOMAIN shown = DOMAIN ids
    BY <1>4, LooksLength
  <2>2. DOMAIN ids = 1 .. Len(ids) /\ Len(ids) \in Nat
    BY <1>4
  <2>3. shown = [p \in 1 .. Len(ids) |-> shown[p]]
    BY <1>4, <2>2 DEF Looks
  <2>. QED
    BY <2>1, <2>2, <2>3
<1>19. SubSeq(shown, a, b) = [n \in 1 .. N |-> shown[a + n - 1]]
  BY <1>5, <1>18
<1>20. List!Split
  <2>1. request'.range.start = a /\ request'.range.end = b /\ request'.op = "split"
    BY <1>2 DEF a, b
  <2>2. a \in 1 .. b /\ b <= Len(shown)
    BY <1>5, <1>18
  <2>3. shown' = SubSeq(shown, a, b)
    BY <1>2, <1>17, <1>19
  <2>. HIDE DEF a, b
  <2>. QED
    BY <2>1, <2>2, <2>3 DEF List!Split
<1>. QED
  BY <1>14, <1>20

-----------------------------------------------------------------------------
(* Merge does to the list of pages what it promises *)

Ascending(s) == \A p, q \in DOMAIN s : p < q => s[p] < s[q]

\* renumber_objects_with: the pages of a document are numbered in page order.
LEMMA RenumberedAscending ==
    ASSUME NEW d, Woven(d.objects, d.root, DOMAIN d.objects), NEW start \in Nat \ {0}
    PROVE  Ascending(PageIds(Renumbered(d, start)))
<1>. DEFINE ids == PageIds(d)
            number == Numbers(d, start)
<1>1. PageIds(Renumbered(d, start)) = Mapped(number, ids)
  BY RenumberedView
<1>2. \A p, q \in DOMAIN ids : p < q => number[ids[p]] < number[ids[q]]
  BY NumbersFacts
<1>. HIDE DEF ids, number
<1>. QED
  BY <1>1, <1>2 DEF Mapped, Ascending

\* What is handed back of merged documents: their pages by number, looking as
\* they did.
LEMMA AssembledView ==
    ASSUME NEW e, NEW o, NEW tree, NEW source, Apart(source),
           Tidied(e, o, tree, DOMAIN o, FALSE), Assembled(o, DOMAIN o, source, tree),
           \A n \in DOMAIN source : Legible(source[n])
    PROVE  LET q == Narrow(o, DOMAIN o)
               P == OfKind(o, "page")
           IN /\ Legible(e.objects) /\ View(e) = Looks(q, InOrder(P))
              /\ \A n \in DOMAIN source : \A i \in OfKind(source[n], "page") :
                    i \in P /\ Look(q, i) = Look(source[n], i)
              /\ \A i \in P : \E n \in DOMAIN source : i \in OfKind(source[n], "page")
              /\ P \subseteq Nat /\ IsFiniteSet(P)
<1>. DEFINE K == DOMAIN o
            P == OfKind(o, "page")
            q == Narrow(o, K)
<1>1. DOMAIN q = K /\ (\A i \in K : q[i] = o[i]) /\ In(o, K, {"page"}) = P /\ OfKind(q, "page") = P
  BY DEF Narrow, In, OfKind
<1>2. Woven(o, tree, K) /\ IsFiniteSet(K) /\ K \subseteq Nat \ {0}
  BY DEF Tidied, Woven, Web
<1>3. P \subseteq Nat /\ IsFiniteSet(P)
  <2>1. P \in SUBSET K
    BY DEF OfKind
  <2>. QED
    BY <1>2, <2>1, FS_Subset
<1>4. /\ o[tree].kids = InOrder(P)
      /\ \A i : i \in P <=> \E n \in DOMAIN source : i \in OfKind(source[n], "page")
      /\ \A n \in DOMAIN source : Planted(o, K, source[n], tree)
  BY <1>1 DEF Assembled
<1>5. \A n \in DOMAIN source : Web(source[n], DOMAIN source[n])
  BY DEF Apart, Woven
<1>10. Woven(q, tree, DOMAIN q)
  BY <1>2, NarrowWoven
<1>. HIDE DEF P, q
<1>6. ASSUME NEW n \in DOMAIN source, NEW i \in OfKind(source[n], "page")
      PROVE  Look(q, i) = Look(source[n], i) /\ Readable(q, q[i], Inherited(q, i, MaxLevels))
  <2>. DEFINE s == source[n]
  <2>1. Readable(s, s[i], Inherited(s, i, MaxLevels))
    BY DEF Legible
  <2>2. Web(s, DOMAIN s) /\ Planted(o, K, s, tree)
    BY <1>4, <1>5
  <2>. HIDE DEF s, K
  <2>3. Planted(q, DOMAIN q, s, tree)
    BY <2>2, PlantedNarrow DEF q
  <2>. QED
    BY <1>10, <2>1, <2>2, <2>3, PlantedLook DEF s
<1>7. Legible(q)
  BY <1>1, <1>4, <1>6 DEF Legible
<1>8. \A c \in ToSet(o[tree].kids) : c \in In(o, K, {"page"})
  <2>1. ToSet(InOrder(P)) = P
    BY <1>3, InOrderFacts
  <2>. QED
    BY <1>1, <1>4, <2>1
<1>9. Legible(e.objects) /\ View(e) = Looks(q, InOrder(P))
  <2>1. Legible(Narrow(o, K))
    BY <1>7 DEF q
  <2>2. Legible(e.objects) /\ View(e) = Looks(Narrow(o, K), o[tree].kids)
    BY <1>8, <2>1, FlatView
  <2>. QED
    BY <1>4, <2>2 DEF q
<1>. QED
  BY <1>3, <1>4, <1>6, <1>9 DEF P, q

\* One list of looks after another.
LEMMA LooksConcat ==
    ASSUME NEW o, NEW S, NEW s \in Seq(S), NEW t \in Seq(S)
    PROVE  Looks(o, s \o t) = Looks(o, s) \o Looks(o, t)
<1>. DEFINE f == [i \in S |-> Look(o, i)]
            V == {f[i] : i \in S}
<1>1. ASSUME NEW r \in Seq(S) PROVE Looks(o, r) = Mapped(f, r)
  <2>1. \A k \in DOMAIN r : r[k] \in S
    OBVIOUS
  <2>. QED
    BY <2>1 DEF Looks, Mapped
<1>2. s \o t \in Seq(S)
  OBVIOUS
<1>3. Mapped(f, s \o t) = Mapped(f, s) \o Mapped(f, t)
  <2>1. f \in [S -> V]
    OBVIOUS
  <2>. HIDE DEF f, V
  <2>. QED
    BY <2>1, MappedConcat
<1>. QED
  BY <1>1, <1>2, <1>3

\* One list in ascending order, and another one past it.
Successive(s, t) ==
    /\ Ascending(s) /\ Ascending(t) /\ IsFiniteSet(ToSet(s) \cup ToSet(t))
    /\ ToSet(s) \subseteq Nat /\ ToSet(t) \subseteq Nat
    /\ \A i \in ToSet(s), j \in ToSet(t) : i < j

\* Two ascending sequences, all of the first before the second, are in order one
\* after the other.
LEMMA AscendingConcat ==
    ASSUME NEW U, NEW s \in Seq(U), NEW t \in Seq(U), Successive(s, t)
    PROVE  InOrder(ToSet(s) \cup ToSet(t)) = s \o t
<1>. DEFINE S == ToSet(s)
            T == ToSet(t)
<1>0. /\ Ascending(s) /\ Ascending(t) /\ IsFiniteSet(S \cup T) /\ S \subseteq Nat /\ T \subseteq Nat
      /\ (\A i \in S, j \in T : i < j) /\ ToSet(s) = S /\ ToSet(t) = T
      /\ s \in Seq(S) /\ t \in Seq(T)
  <2>1. s \in Seq(S) /\ t \in Seq(T)
    BY DEF ToSet
  <2>. QED
    BY <2>1 DEF Successive
<1>. HIDE DEF S, T
<1>. DEFINE r == s \o t
            M == Len(s)
            N == Len(t)
<1>1. /\ M \in Nat /\ N \in Nat /\ DOMAIN s = 1 .. M /\ DOMAIN t = 1 .. N
      /\ DOMAIN r = 1 .. M + N
      /\ \A k \in 1 .. M : r[k] = s[k] /\ s[k] \in S
      /\ \A k \in 1 .. N : r[M + k] = t[k] /\ t[k] \in T
  BY <1>0
<1>2. r \in Seq(S \cup T) /\ Len(r) = M + N
  BY <1>0
<1>. HIDE DEF r, M, N
<1>3. \A k \in 1 .. M + N : k \in 1 .. M \/ (k - M \in 1 .. N /\ k = M + (k - M))
  BY <1>1
<1>4. r \in [1 .. M + N -> S \cup T]
  BY <1>1, <1>2
<1>5. ToSet(r) = S \cup T
  <2>1. \A x \in S : \E k \in 1 .. M + N : r[k] = x
    <3>1. \A k \in 1 .. M : k \in 1 .. M + N
      BY <1>1
    <3>2. \A x \in S : \E k \in 1 .. M : s[k] = x
      BY <1>0, <1>1 DEF ToSet
    <3>. QED
      BY <1>1, <3>1, <3>2
  <2>2. \A x \in T : \E k \in 1 .. M + N : r[k] = x
    <3>1. \A k \in 1 .. N : M + k \in 1 .. M + N
      BY <1>1
    <3>2. \A x \in T : \E k \in 1 .. N : t[k] = x
      BY <1>0, <1>1 DEF ToSet
    <3>. QED
      BY <1>1, <3>1, <3>2
  <2>. QED
    BY <1>1, <1>4, <2>1, <2>2 DEF ToSet
<1>6. ASSUME NEW a \in 1 .. M + N, NEW b \in 1 .. M + N, a < b PROVE r[a] < r[b]
  <2>1. CASE b \in 1 .. M
    <3>1. a \in 1 .. M
      BY <1>1, <1>6, <2>1
    <3>. QED
      BY <1>0, <1>1, <1>6, <2>1, <3>1 DEF Ascending
  <2>2. CASE a \in 1 .. M /\ b - M \in 1 .. N /\ b = M + (b - M)
    <3>1. r[a] \in S
      BY <1>1, <2>2
    <3>2. r[b] \in T
      BY <1>1, <2>2
    <3>. QED
      BY <1>0, <3>1, <3>2
  <2>3. CASE a - M \in 1 .. N /\ a = M + (a - M) /\ b - M \in 1 .. N /\ b = M + (b - M)
    <3>1. a - M < b - M
      BY <1>1, <1>6
    <3>2. r[a] = t[a - M] /\ r[b] = t[b - M]
      BY <1>1, <2>3
    <3>. QED
      BY <1>0, <1>1, <2>3, <3>1, <3>2 DEF Ascending
  <2>4. CASE a - M \in 1 .. N /\ a = M + (a - M) /\ b \in 1 .. M
    BY <1>1, <1>6, <2>4
  <2>. QED
    BY <1>3, <2>1, <2>2, <2>3, <2>4
<1>7. S \cup T \subseteq Nat /\ M + N \in Nat
  BY <1>0, <1>1
<1>. DEFINE L == M + N
<1>. HIDE DEF L
<1>8. r \in [1 .. L -> S \cup T] /\ (\A a, b \in 1 .. L : a < b => r[a] < r[b]) /\ L \in Nat
  BY <1>4, <1>6, <1>7 DEF L
<1>9. r = InOrder(S \cup T)
  BY <1>0, <1>5, <1>7, <1>8, InOrderUnique
<1>. QED
  BY <1>9 DEF r, S, T

\* A renumbered document that is merged.
LEMMA SourceView ==
    ASSUME NEW d, Good(d), Legible(d.objects), NEW start \in Nat \ {0}
    PROVE  LET e == Renumbered(d, start)
           IN /\ Legible(e.objects) /\ View(d) = Looks(e.objects, PageIds(e))
              /\ Ascending(PageIds(e)) /\ PageIds(e) \in Seq(OfKind(e.objects, "page"))
              /\ ToSet(PageIds(e)) = OfKind(e.objects, "page")
<1>. DEFINE e == Renumbered(d, start)
<1>1. Woven(d.objects, d.root, DOMAIN d.objects)
  BY GoodFacts
<1>2. Woven(e.objects, e.root, DOMAIN e.objects)
  BY <1>1, RenumberedWoven
<1>3. Legible(e.objects) /\ View(e) = View(d)
  BY <1>1, RenumberedView
<1>4. Ascending(PageIds(e))
  BY <1>1, RenumberedAscending
<1>. HIDE DEF e
<1>5. View(e) = Looks(e.objects, PageIds(e))
  BY <1>2, ViewOf
<1>6. PageIds(e) \in Seq(DOMAIN e.objects) /\ ToSet(PageIds(e)) = OfKind(e.objects, "page")
  BY <1>2, WovenPages
<1>7. PageIds(e) \in Seq(OfKind(e.objects, "page"))
  BY <1>6, SeqNarrowed
<1>. QED
  BY <1>3, <1>4, <1>5, <1>6, <1>7 DEF e

\* merge.rs joins the pages of the documents,
LEMMA BothView ==
    ASSUME NEW a, Good(a), Legible(a.objects), NEW b, Good(b), Legible(b.objects),
           NEW r, Merge(<<a, b>>, r), ~damaged'
    PROVE  Legible(doc'.objects) /\ shown' = View(a) \o View(b) /\ request' = r
<1>. DEFINE source == SourcesOf(<<a, b>>)
            M == Cardinality(DOMAIN a.objects)
            e == Renumbered(a, 1)
            f == Renumbered(b, 1 + M)
            S == OfKind(e.objects, "page")
            T == OfKind(f.objects, "page")
<1>1. /\ Apart(source) /\ DOMAIN source = {1, 2}
      /\ source[1] = e.objects /\ source[2] = f.objects
      /\ M \in Nat
      /\ \A i \in DOMAIN e.objects, j \in DOMAIN f.objects : i < j
  BY BothApart
<1>2. MergeOf(source, r)
  BY DEF Merge, SourcesOf
<1>3. 1 \in Nat \ {0} /\ 1 + M \in Nat \ {0}
  <2>. HIDE DEF M
  <2>. QED
    BY <1>1
<1>4. /\ Legible(e.objects) /\ View(a) = Looks(e.objects, PageIds(e))
      /\ Ascending(PageIds(e)) /\ PageIds(e) \in Seq(S) /\ ToSet(PageIds(e)) = S
  BY <1>3, SourceView
<1>. HIDE DEF M
<1>5. /\ Legible(f.objects) /\ View(b) = Looks(f.objects, PageIds(f))
      /\ Ascending(PageIds(f)) /\ PageIds(f) \in Seq(T) /\ ToSet(PageIds(f)) = T
  BY <1>3, SourceView
<1>. HIDE DEF source, e, f
<1>6. PICK o, tree : Tidied(doc', o, tree, DOMAIN o, FALSE) /\ Assembled(o, DOMAIN o, source, tree)
  BY <1>1, <1>2, MergeOfHands
<1>7. request' = r /\ shown' = View(doc')
  BY <1>1, <1>2, MergeOfHands
<1>. DEFINE q == Narrow(o, DOMAIN o)
            P == OfKind(o, "page")
<1>8. /\ Legible(doc'.objects) /\ View(doc') = Looks(q, InOrder(P))
      /\ \A n \in DOMAIN source : \A i \in OfKind(source[n], "page") :
            i \in P /\ Look(q, i) = Look(source[n], i)
      /\ \A i \in P : \E n \in DOMAIN source : i \in OfKind(source[n], "page")
      /\ P \subseteq Nat /\ IsFiniteSet(P)
  <2>1. \A n \in DOMAIN source : Legible(source[n])
    BY <1>1, <1>4, <1>5
  <2>. QED
    BY <1>1, <1>6, <2>1, AssembledView
<1>. HIDE DEF q, P
<1>9. /\ \A i \in S : i \in P /\ Look(q, i) = Look(e.objects, i)
      /\ \A i \in T : i \in P /\ Look(q, i) = Look(f.objects, i)
      /\ P = S \cup T
  <2>1. 1 \in DOMAIN source /\ 2 \in DOMAIN source
    BY <1>1
  <2>2. /\ \A i \in S : i \in P /\ Look(q, i) = Look(e.objects, i)
        /\ \A i \in T : i \in P /\ Look(q, i) = Look(f.objects, i)
    BY <1>1, <1>8, <2>1
  <2>3. \A i \in P : i \in S \/ i \in T
    BY <1>1, <1>8
  <2>. QED
    BY <2>2, <2>3
<1>10. \A i \in S, j \in T : i < j
  BY <1>1 DEF OfKind
<1>. HIDE DEF S, T
<1>11. InOrder(P) = PageIds(e) \o PageIds(f)
  <2>1. S \subseteq Nat /\ T \subseteq Nat /\ IsFiniteSet(S \cup T)
    BY <1>8, <1>9
  <2>. DEFINE s == PageIds(e)
              t == PageIds(f)
  <2>2. /\ s \in Seq(S) /\ t \in Seq(T) /\ Ascending(s) /\ Ascending(t)
        /\ ToSet(s) = S /\ ToSet(t) = T
    BY <1>4, <1>5
  <2>. HIDE DEF s, t
  <2>3. Successive(s, t)
    BY <1>10, <2>1, <2>2 DEF Successive
  <2>4. s \in Seq(S \cup T) /\ t \in Seq(S \cup T)
    BY <2>2
  <2>5. InOrder(ToSet(s) \cup ToSet(t)) = s \o t
    BY <2>3, <2>4, AscendingConcat
  <2>. QED
    BY <1>9, <2>2, <2>5 DEF s, t
<1>12. View(doc') = Looks(q, PageIds(e)) \o Looks(q, PageIds(f))
  <2>1. PageIds(e) \in Seq(S \cup T) /\ PageIds(f) \in Seq(S \cup T)
    BY <1>4, <1>5
  <2>. QED
    BY <1>8, <1>11, <2>1, LooksConcat
<1>13. Looks(q, PageIds(e)) = View(a)
  <2>1. \A p \in DOMAIN PageIds(e) : PageIds(e)[p] \in S
    BY <1>4
  <2>. QED
    BY <1>4, <1>9, <2>1 DEF Looks
<1>14. Looks(q, PageIds(f)) = View(b)
  <2>1. \A p \in DOMAIN PageIds(f) : PageIds(f)[p] \in T
    BY <1>5
  <2>. QED
    BY <1>5, <1>9, <2>1 DEF Looks
<1>. QED
  BY <1>7, <1>8, <1>12, <1>13, <1>14

\* and leaves those of a single one.
LEMMA AloneView ==
    ASSUME NEW d, Good(d), Legible(d.objects), NEW r, Merge(<<d>>, r), ~damaged'
    PROVE  Legible(doc'.objects) /\ shown' = View(d) /\ request' = r
<1>. DEFINE source == SourcesOf(<<d>>)
            e == Renumbered(d, 1)
            S == OfKind(e.objects, "page")
<1>1. Apart(source) /\ DOMAIN source = {1} /\ source[1] = e.objects
  BY AloneApart
<1>2. MergeOf(source, r)
  BY DEF Merge, SourcesOf
<1>3. 1 \in Nat \ {0}
  OBVIOUS
<1>4. /\ Legible(e.objects) /\ View(d) = Looks(e.objects, PageIds(e))
      /\ Ascending(PageIds(e)) /\ PageIds(e) \in Seq(S) /\ ToSet(PageIds(e)) = S
  BY <1>3, SourceView
<1>. HIDE DEF source, e
<1>6. PICK o, tree : Tidied(doc', o, tree, DOMAIN o, FALSE) /\ Assembled(o, DOMAIN o, source, tree)
  BY <1>1, <1>2, MergeOfHands
<1>7. request' = r /\ shown' = View(doc')
  BY <1>1, <1>2, MergeOfHands
<1>. DEFINE q == Narrow(o, DOMAIN o)
            P == OfKind(o, "page")
<1>8. /\ Legible(doc'.objects) /\ View(doc') = Looks(q, InOrder(P))
      /\ \A n \in DOMAIN source : \A i \in OfKind(source[n], "page") :
            i \in P /\ Look(q, i) = Look(source[n], i)
      /\ \A i \in P : \E n \in DOMAIN source : i \in OfKind(source[n], "page")
      /\ P \subseteq Nat /\ IsFiniteSet(P)
  <2>1. \A n \in DOMAIN source : Legible(source[n])
    BY <1>1, <1>4
  <2>. QED
    BY <1>1, <1>6, <2>1, AssembledView
<1>. HIDE DEF q, P
<1>9. (\A i \in S : i \in P /\ Look(q, i) = Look(e.objects, i)) /\ P = S
  <2>1. \A i \in S : i \in P /\ Look(q, i) = Look(e.objects, i)
    BY <1>1, <1>8
  <2>2. \A i \in P : i \in S
    BY <1>1, <1>8
  <2>. QED
    BY <2>1, <2>2
<1>. HIDE DEF S
<1>. DEFINE ids == PageIds(e)
            N == Len(ids)
<1>10. N \in Nat /\ ids \in [1 .. N -> S] /\ DOMAIN ids = 1 .. N
  BY <1>4
<1>11. ids = InOrder(S)
  <2>. HIDE DEF N
  <2>1. \A a, b \in 1 .. N : a < b => ids[a] < ids[b]
    BY <1>4, <1>10 DEF Ascending
  <2>. HIDE DEF ids
  <2>2. ToSet(ids) = S
    BY <1>4 DEF ids
  <2>3. S \subseteq Nat /\ IsFiniteSet(S)
    BY <1>8, <1>9
  <2>. QED
    BY <1>10, <2>1, <2>2, <2>3, InOrderUnique
<1>12. Looks(q, ids) = View(d)
  <2>1. \A p \in DOMAIN ids : ids[p] \in S
    BY <1>4
  <2>. QED
    BY <1>4, <1>9, <2>1 DEF Looks
<1>. QED
  BY <1>7, <1>8, <1>9, <1>11, <1>12

\* What a document shows is a list.
LEMMA ShownList ==
    ASSUME NEW d, Good(d)
    PROVE  \E S : View(d) \in Seq(S)
<1>. DEFINE ids == PageIds(d)
            v == View(d)
<1>1. Woven(d.objects, d.root, DOMAIN d.objects)
  BY GoodFacts
<1>2. v = Looks(d.objects, ids) /\ ids \in Seq(DOMAIN d.objects)
  BY <1>1, ViewOf, WovenPages
<1>. HIDE DEF ids, v
<1>3. v = [p \in 1 .. Len(ids) |-> v[p]] /\ Len(ids) \in Nat
  BY <1>2 DEF Looks
<1>4. v \in Seq({v[p] : p \in 1 .. Len(ids)})
  BY <1>3
<1>. QED
  BY <1>4 DEF v

\* merge.rs joins the documents in the order they are given.
LEMMA MergeLists ==
    ASSUME Good(doc), Legible(doc.objects), shown = View(doc), ~damaged'
    PROVE  /\ MergeAlone => List!Merge /\ Legible(doc'.objects)
           /\ \A other \in Documents, before \in BOOLEAN :
                 MergeWith(other, before) => List!Merge /\ Legible(doc'.objects)
<1>1. ASSUME MergeAlone PROVE List!Merge /\ Legible(doc'.objects)
  <2>. DEFINE r == [op |-> "merge", with |-> <<>>, before |-> FALSE]
  <2>1. Merge(<<doc>>, r)
    BY <1>1 DEF MergeAlone
  <2>2. r.op = "merge" /\ r.with = <<>> /\ r.before = FALSE
    OBVIOUS
  <2>. HIDE DEF r
  <2>3. Legible(doc'.objects) /\ shown' = shown /\ request' = r
    BY <2>1, AloneView
  <2>4. shown \o <<>> = shown
    <3>1. PICK S : shown \in Seq(S)
      BY ShownList
    <3>. QED
      BY <3>1
  <2>5. List!Merge
    BY <2>2, <2>3, <2>4 DEF List!Merge
  <2>. QED
    BY <2>3, <2>5
<1>2. ASSUME NEW other \in Documents, NEW before \in BOOLEAN, MergeWith(other, before)
      PROVE  List!Merge /\ Legible(doc'.objects)
  <2>. DEFINE r == [op |-> "merge", with |-> View(other), before |-> before]
  <2>1. Merge(IF before THEN <<other, doc>> ELSE <<doc, other>>, r)
    BY <1>2 DEF MergeWith
  <2>2. Good(other) /\ Legible(other.objects)
    BY DocumentsAssumption DEF Good
  <2>3. r.op = "merge" /\ r.with = View(other) /\ r.before = before
    OBVIOUS
  <2>. HIDE DEF r
  <2>4. CASE before
    <3>1. Merge(<<other, doc>>, r)
      BY <2>1, <2>4
    <3>2. Legible(doc'.objects) /\ shown' = View(other) \o shown /\ request' = r
      BY <2>2, <3>1, BothView
    <3>3. List!Merge
      BY <2>3, <2>4, <3>2 DEF List!Merge
    <3>. QED
      BY <3>2, <3>3
  <2>5. CASE ~before
    <3>1. Merge(<<doc, other>>, r)
      BY <2>1, <2>5
    <3>2. Legible(doc'.objects) /\ shown' = shown \o View(other) /\ request' = r
      BY <2>2, <3>1, BothView
    <3>3. List!Merge
      BY <2>3, <2>5, <3>2 DEF List!Merge
    <3>. QED
      BY <3>2, <3>3
  <2>. QED
    BY <2>4, <2>5
<1>. QED
  BY <1>1, <1>2

-----------------------------------------------------------------------------
(* Flatten does to the list of pages what it promises *)

\* The forms that a flattened page names, by their names.
FormsOf(o, i) ==
    LET widgets == WidgetsOf(o, i)
        names == FormNames(o, i)
    IN [name \in ToSet(names) |->
           o[widgets[CHOOSE w \in DOMAIN names : names[w] = name]].appearance]

\* Each widget has a name of its own, which the page did not have.
NamesForms(o, i) ==
    LET widgets == WidgetsOf(o, i)
        names == FormNames(o, i)
        f == FormsOf(o, i)
        taken == DOMAIN Named(Inherited(o, i, MaxLevels))
    IN /\ widgets \in Seq(DOMAIN o \cap OfKind(o, "widget"))
       /\ DOMAIN names = DOMAIN widgets /\ DOMAIN widgets = 1 .. Len(widgets) /\ Len(widgets) \in Nat
       /\ DOMAIN f = ToSet(names) /\ IsFiniteSet(ToSet(names)) /\ ToSet(names) \cap taken = {}
       /\ \A w \in DOMAIN widgets : f[names[w]] = o[widgets[w]].appearance

\* The second part of a form's name tells which widget it is of.
LEMMA FormPrefix ==
    ASSUME NEW names, IsFiniteSet(DOMAIN names), NEW w \in Nat
    PROVE  /\ UniqueName(names, <<"form", w>>) \notin DOMAIN names
           /\ UniqueName(names, <<"form", w>>)[2] = w
<1>. DEFINE T == {"form"} \cup Nat
            prefix == <<"form", w>>
<1>1. prefix \in Seq(T) /\ Nat \subseteq T /\ Len(prefix) = 2 /\ prefix[2] = w
  OBVIOUS
<1>2. \A n \in Nat : Append(prefix, n)[2] = w
  <2>. SUFFICES ASSUME NEW n \in Nat PROVE Append(prefix, n)[2] = w
    OBVIOUS
  <2>. HIDE DEF prefix, T
  <2>1. n \in T
    BY <1>1
  <2>2. \A k \in 1 .. Len(prefix) : Append(prefix, n)[k] = prefix[k]
    <3>1. prefix \in Seq(T) /\ n \in T
      BY <1>1, <2>1
    <3>. QED
      BY <3>1, Appending
  <2>3. 2 \in 1 .. Len(prefix)
    BY <1>1
  <2>4. Append(prefix, n)[2] = prefix[2]
    BY <2>2, <2>3
  <2>. QED
    BY <1>1, <2>4
<1>. HIDE DEF prefix, T
<1>3. \E n \in Nat : /\ UniqueName(names, prefix) = Append(prefix, n)
                     /\ UniqueName(names, prefix) \notin DOMAIN names
  BY <1>1, FreshName
<1>4. UniqueName(names, prefix) \notin DOMAIN names /\ UniqueName(names, prefix)[2] = w
  BY <1>2, <1>3
<1>. QED
  BY <1>4 DEF prefix

\* The names of a page's forms are all different and none was in use.
LEMMA FormNaming ==
    ASSUME NEW o, NEW i, o[i].annots \in Seq(DOMAIN o),
           IsFiniteSet(DOMAIN Named(Inherited(o, i, MaxLevels)))
    PROVE  NamesForms(o, i)
<1>. DEFINE widgets == WidgetsOf(o, i)
            names == FormNames(o, i)
            found == Named(Inherited(o, i, MaxLevels))
            N == Len(widgets)
            first(name) == CHOOSE w \in DOMAIN names : names[w] = name
            f == FormsOf(o, i)
<1>1. widgets \in Seq(DOMAIN o \cap OfKind(o, "widget"))
  BY OnlyFacts DEF WidgetsOf
<1>2. DOMAIN widgets = 1 .. N /\ N \in Nat
  <2>. HIDE DEF widgets
  <2>. QED
    BY <1>1
<1>3. DOMAIN names = DOMAIN widgets
      /\ \A w \in DOMAIN widgets : names[w] = UniqueName(found, <<"form", w>>)
  BY DEF FormNames
<1>4. /\ DOMAIN f = ToSet(names)
      /\ \A name \in ToSet(names) : f[name] = o[widgets[first(name)]].appearance
  BY DEF FormsOf
<1>. HIDE DEF widgets, names, f, N
<1>5. \A w \in 1 .. N : names[w] \notin DOMAIN found /\ names[w][2] = w
  <2>1. \A w \in 1 .. N : w \in Nat
    BY <1>2
  <2>2. IsFiniteSet(DOMAIN found)
    OBVIOUS
  <2>. HIDE DEF found
  <2>3. ASSUME NEW w \in 1 .. N
        PROVE  /\ UniqueName(found, <<"form", w>>) \notin DOMAIN found
               /\ UniqueName(found, <<"form", w>>)[2] = w
    <3>1. w \in Nat
      BY <2>1
    <3>. QED
      BY <2>2, <3>1, FormPrefix
  <2>. QED
    BY <1>2, <1>3, <2>3
<1>6. ToSet(names) \cap DOMAIN found = {}
  BY <1>2, <1>3, <1>5 DEF ToSet
<1>7. IsFiniteSet(ToSet(names))
  <2>. DEFINE S == 1 .. N
              T == ToSet(names)
  <2>1. \A w \in S : names[w] \in T
    BY <1>2, <1>3 DEF ToSet
  <2>2. names = [w \in S |-> names[w]]
    BY <1>2, <1>3 DEF names, FormNames
  <2>3. \A x \in T : \E w \in S : names[w] = x
    BY <1>2, <1>3 DEF ToSet
  <2>4. IsFiniteSet(S)
    BY <1>2, FS_Interval
  <2>. HIDE DEF S, T
  <2>5. names \in Surjection(S, T)
    BY <2>1, <2>2, <2>3 DEF Surjection
  <2>6. IsFiniteSet(T)
    BY <2>4, <2>5, FS_Surjection
  <2>. QED
    BY <2>6 DEF T
<1>8. ASSUME NEW w \in 1 .. N PROVE f[names[w]] = o[widgets[w]].appearance
  <2>1. names[w] \in ToSet(names) /\ w \in DOMAIN names
    BY <1>2, <1>3 DEF ToSet
  <2>2. first(names[w]) \in 1 .. N /\ names[first(names[w])] = names[w]
    BY <1>2, <1>3, <2>1
  <2>3. first(names[w]) = w
    BY <1>5, <2>2
  <2>. QED
    BY <1>4, <2>1, <2>3
<1>. QED
  BY <1>1, <1>2, <1>3, <1>4, <1>6, <1>7, <1>8 DEF NamesForms, widgets, names, f, N

\* The new stream of a flattened page uses these names,
LEMMA FormsUsed ==
    ASSUME NEW o, NEW i, NamesForms(o, i), NEW draws, draws = FormUses(o, i)
    PROVE  /\ draws \in Seq(ToSet(draws))
           /\ \A item \in ToSet(draws) : item.name \in DOMAIN FormsOf(o, i)
           /\ DOMAIN draws = DOMAIN WidgetsOf(o, i)
           /\ \A w \in DOMAIN draws : /\ draws[w] = Use(FormNames(o, i)[w])
                                     /\ FormNames(o, i)[w] \in DOMAIN FormsOf(o, i)
<1>. DEFINE widgets == WidgetsOf(o, i)
            names == FormNames(o, i)
            f == FormsOf(o, i)
            N == Len(widgets)
<1>1. /\ DOMAIN names = 1 .. N /\ DOMAIN widgets = 1 .. N /\ N \in Nat /\ DOMAIN f = ToSet(names)
  BY DEF NamesForms
<1>2. draws = [w \in 1 .. N |-> Use(names[w])]
  BY <1>1 DEF FormUses
<1>3. \A w \in 1 .. N : names[w] \in ToSet(names)
  BY <1>1 DEF ToSet
<1>. HIDE DEF f, names, widgets, N
<1>4. \A w \in 1 .. N : draws[w] \in ToSet(draws)
  BY <1>2 DEF ToSet
<1>5. draws \in Seq(ToSet(draws))
  <2>1. draws = [w \in 1 .. N |-> draws[w]]
    BY <1>2
  <2>. QED
    BY <1>1, <1>4, <2>1
<1>6. \A item \in ToSet(draws) : item.name \in DOMAIN f
  BY <1>1, <1>2, <1>3 DEF ToSet, Use
<1>. QED
  BY <1>1, <1>2, <1>3, <1>5, <1>6 DEF f, widgets, names

\* and draws by them the looks of the widgets.
LEMMA DrawnForms ==
    ASSUME NEW o, NEW i, NamesForms(o, i), NEW o2, NEW s, o2[s].draws = FormUses(o, i),
           NEW more
    PROVE  Drawn(o2, Overlay(FormsOf(o, i), more), s)
              = [w \in DOMAIN WidgetsOf(o, i) |-> o2[o[WidgetsOf(o, i)[w]].appearance].label]
<1>. DEFINE widgets == WidgetsOf(o, i)
            names == FormNames(o, i)
            f == FormsOf(o, i)
            N == Len(widgets)
            draws == o2[s].draws
            all == Overlay(f, more)
<1>1. /\ DOMAIN widgets = 1 .. N
      /\ \A w \in 1 .. N : f[names[w]] = o[widgets[w]].appearance
  BY DEF NamesForms
<1>2. /\ DOMAIN draws = 1 .. N
      /\ \A w \in 1 .. N : draws[w] = Use(names[w]) /\ names[w] \in DOMAIN f
  BY <1>1, FormsUsed
<1>. HIDE DEF f, names, widgets, N
<1>3. \A w \in 1 .. N : all[names[w]] = o[widgets[w]].appearance
  <2>1. \A name \in DOMAIN f : all[name] = f[name]
    BY OverlayFacts
  <2>. HIDE DEF all
  <2>. QED
    BY <1>1, <1>2, <2>1
<1>4. \A w \in 1 .. N : draws[w].name = names[w] /\ "own" \notin DOMAIN draws[w]
  BY <1>2 DEF Use
<1>5. Drawn(o2, all, s) = [w \in 1 .. N |-> o2[o[widgets[w]].appearance].label]
  <2>. HIDE DEF all, draws
  <2>1. Drawn(o2, all, s) = [w \in 1 .. N |-> o2[all[draws[w].name]].label]
    BY <1>2, <1>4 DEF Drawn, draws
  <2>. QED
    BY <1>3, <1>4, <2>1
<1>. QED
  BY <1>1, <1>5 DEF f, widgets

\* The annotations that are left of a page's.
RestOf(o, i) == Only(o[i].annots, DOMAIN o \ OfKind(o, "widget"))

FlatParts(x, o, i, s) ==
    LET found == Inherited(o, i, MaxLevels)
    IN /\ x.contents = Append(o[i].contents, s) /\ x.annots = RestOf(o, i)
       /\ DOMAIN x.attributes = DOMAIN found \cup {"resources"}
       /\ Named(x.attributes) = Overlay(FormsOf(o, i), Named(found))
       /\ \A k \in DOMAIN found \ {"resources"} : x.attributes[k] = found[k]

\* What a flattened page has of each part of an object.
LEMMA FlatPageParts ==
    ASSUME NEW o, Web(o, DOMAIN o), NEW i \in DOMAIN o, NEW s \in Nat
    PROVE  FlatParts(FlatPage(o, i, s), o, i, s)
<1>. DEFINE x == Materialize(o, i)
            f == FormsOf(o, i)
            z == Painted(x, f, s)
            rest == RestOf(o, i)
            K == DOMAIN o \cup {s}
<1>1. Restyled(x, o[i]) /\ x.attributes = Inherited(o, i, MaxLevels) /\ Shaped(x, K)
  <2>1. /\ Shaped(x, DOMAIN o) /\ Refers(o, DOMAIN o, x)
        /\ Restyled(x, o[i]) /\ x.attributes = Inherited(o, i, MaxLevels)
    BY MaterializeFacts
  <2>2. Within(o, DOMAIN o, o, K)
    BY DEF Within
  <2>. HIDE DEF x, K
  <2>. QED
    BY <2>1, <2>2, Wider
<1>. HIDE DEF x, f
<1>2. /\ DOMAIN z = DOMAIN x /\ z.annots = x.annots
      /\ z.contents = Append(x.contents, s)
      /\ DOMAIN z.attributes = DOMAIN x.attributes \cup {"resources"}
      /\ Named(z.attributes) = Overlay(f, Named(x.attributes))
      /\ \A k \in DOMAIN x.attributes \ {"resources"} : z.attributes[k] = x.attributes[k]
  <2>1. s \in K
    OBVIOUS
  <2>. HIDE DEF K
  <2>. QED
    BY <1>1, <2>1, PaintedFacts
<1>3. FlatPage(o, i, s) = [z EXCEPT !.annots = rest]
  <2>1. x.annots = o[i].annots
    BY <1>1 DEF Restyled
  <2>2. FlatPage(o, i, s) = [z EXCEPT !.annots = Only(z.annots, DOMAIN o \ OfKind(o, "widget"))]
    BY DEF FlatPage, FormsOf, x, f
  <2>. HIDE DEF z
  <2>. QED
    BY <1>2, <2>1, <2>2 DEF RestOf
<1>4. "annots" \in DOMAIN z
  BY <1>1, <1>2 DEF Shaped, Object
<1>. DEFINE y == FlatPage(o, i, s)
<1>. HIDE DEF z, rest
<1>5. y.annots = rest /\ y.contents = z.contents /\ y.attributes = z.attributes
  BY <1>3, <1>4
<1>. HIDE DEF y
<1>6. x.contents = o[i].contents
  BY <1>1 DEF Restyled
<1>7. FlatParts(y, o, i, s)
  BY <1>1, <1>2, <1>5, <1>6 DEF FlatParts, f, rest
<1>. QED
  BY <1>7 DEF y

\* What is flattened is painted over with the forms of the widgets.
LEMMA FlatPainted ==
    ASSUME NEW o, NEW root, Woven(o, root, DOMAIN o), NEW o2, Touched(o2, o),
           NEW i \in OfKind(o, "page"), Readable(o, o[i], Inherited(o, i, MaxLevels)),
           NEW s \in DOMAIN o2, o2[s].draws = FormUses(o, i), o2[i] = FlatPage(o, i, s)
    PROVE  PaintedOver(o2, o, i, FormsOf(o, i), s) /\ NamesForms(o, i) /\ o2[i].annots = RestOf(o, i)
<1>. DEFINE found == Inherited(o, i, MaxLevels)
            f == FormsOf(o, i)
<1>1. Web(o, DOMAIN o) /\ i \in DOMAIN o /\ s \in Nat
  BY DEF Woven, OfKind, Touched, Web
<1>2. FlatParts(o2[i], o, i, s)
  BY <1>1, FlatPageParts
<1>3. NamesForms(o, i)
  <2>1. o[i].annots \in Seq(DOMAIN o)
    BY <1>1 DEF Web, Shaped
  <2>2. IsFiniteSet(DOMAIN Named(found))
    BY DEF Readable
  <2>. QED
    BY <2>1, <2>2, FormNaming
<1>4. DOMAIN f \cap DOMAIN Named(found) = {} /\ IsFiniteSet(DOMAIN f)
  BY <1>3 DEF NamesForms
<1>5. /\ o2[s].draws \in Seq(ToSet(o2[s].draws))
      /\ \A item \in ToSet(o2[s].draws) : item.name \in DOMAIN f
  <2>. HIDE DEF found
  <2>1. o2[s].draws = FormUses(o, i)
    OBVIOUS
  <2>2. /\ o2[s].draws \in Seq(ToSet(o2[s].draws))
        /\ \A item \in ToSet(o2[s].draws) : item.name \in DOMAIN FormsOf(o, i)
    BY <1>3, <2>1, FormsUsed
  <2>. QED
    BY <2>2
<1>. HIDE DEF f, found
<1>6. /\ o2[i].contents = Append(o[i].contents, s)
      /\ o2[i].annots = RestOf(o, i)
      /\ DOMAIN o2[i].attributes = DOMAIN found \cup {"resources"}
      /\ Named(o2[i].attributes) = Overlay(f, Named(found))
      /\ \A k \in DOMAIN found \ {"resources"} : o2[i].attributes[k] = found[k]
  BY <1>2 DEF FlatParts, found, f
<1>7. PaintedOver(o2, o, i, f, s)
  BY <1>4, <1>5, <1>6 DEF PaintedOver, found
<1>. QED
  BY <1>3, <1>6, <1>7 DEF f

\* The forms of the widgets are drawn over the page, which keeps the others.
LEMMA FlatLook ==
    ASSUME NEW o, NEW root, Woven(o, root, DOMAIN o), NEW o2, Touched(o2, o),
           NEW i \in OfKind(o, "page"), Readable(o, o[i], Inherited(o, i, MaxLevels)),
           NEW s \in DOMAIN o2, o2[s].draws = FormUses(o, i), o2[i] = FlatPage(o, i, s),
           \A w \in ToSet(WidgetsOf(o, i)) : o[w].appearance # 0
    PROVE  /\ Look(o2, i) = DrawnOver(Look(o, i),
                                 [w \in DOMAIN WidgetsOf(o, i) |-> Note(o, WidgetsOf(o, i)[w]).shows],
                                 Notes(o, RestOf(o, i)))
           /\ Readable(o2, o2[i], Inherited(o2, i, MaxLevels))
<1>. DEFINE widgets == WidgetsOf(o, i)
            f == FormsOf(o, i)
            names == Overlay(f, Named(Inherited(o, i, MaxLevels)))
            forms == [w \in DOMAIN widgets |-> Note(o, widgets[w]).shows]
<1>1. PaintedOver(o2, o, i, f, s) /\ NamesForms(o, i) /\ o2[i].annots = RestOf(o, i)
  BY FlatPainted
<1>2. PaintedLooks(o2, o, i, f, s)
  BY <1>1, PaintedLook
<1>3. Drawn(o2, names, s) = [w \in DOMAIN widgets |-> o2[o[widgets[w]].appearance].label]
  BY <1>1, DrawnForms
<1>4. \A w \in DOMAIN widgets : widgets[w] \in DOMAIN o /\ o[widgets[w]].appearance # 0
  <2>1. widgets \in Seq(DOMAIN o \cap OfKind(o, "widget"))
    BY <1>1 DEF NamesForms
  <2>2. \A w \in DOMAIN widgets : widgets[w] \in DOMAIN o
    <3>. HIDE DEF widgets
    <3>. QED
      BY <2>1
  <2>3. \A w \in DOMAIN widgets : widgets[w] \in ToSet(widgets)
    BY DEF ToSet
  <2>. QED
    BY <2>2, <2>3
<1>5. ASSUME NEW w \in DOMAIN widgets
      PROVE  o2[o[widgets[w]].appearance].label = Note(o, widgets[w]).shows
  <2>. DEFINE a == widgets[w]
  <2>1. a \in DOMAIN o /\ o[a].appearance # 0
    BY <1>4
  <2>. HIDE DEF a, widgets
  <2>2. o[a].appearance \in In(o, DOMAIN o, {"form"})
    BY <2>1 DEF Touched, Web, Refers
  <2>3. o2[o[a].appearance] = o[o[a].appearance]
    BY <2>2 DEF Touched, In
  <2>4. Note(o, a).shows = o[o[a].appearance].label
    BY <2>1 DEF Note
  <2>. QED
    BY <2>3, <2>4 DEF a
<1>6. Drawn(o2, names, s) = forms
  <2>. HIDE DEF widgets, names
  <2>. QED
    BY <1>3, <1>5
<1>7. Notes(o2, RestOf(o, i)) = Notes(o, RestOf(o, i))
  <2>. DEFINE rest == RestOf(o, i)
              annots == o[i].annots
  <2>1. annots \in Seq(DOMAIN o) /\ ToSet(annots) \subseteq In(o, DOMAIN o, Annotations)
    BY DEF Touched, Web, Shaped, Refers, OfKind
  <2>2. ToSet(rest) \subseteq ToSet(annots)
    <3>. DEFINE others == DOMAIN o \ OfKind(o, "widget")
    <3>1. rest = Only(annots, others)
      BY DEF RestOf
    <3>. HIDE DEF annots, others, rest
    <3>2. ToSet(Only(annots, others)) = ToSet(annots) \cap others
      BY <2>1, OnlyFacts
    <3>. QED
      BY <3>1, <3>2
  <2>3. \A k \in DOMAIN rest : rest[k] \in DOMAIN o /\ o[rest[k]].kind \in Annotations
    BY <2>1, <2>2 DEF ToSet, In
  <2>4. \A a \in DOMAIN o : o[a].kind \in Annotations => Note(o2, a) = Note(o, a)
    BY TouchedRefs
  <2>. HIDE DEF rest
  <2>5. \A k \in DOMAIN rest : Note(o2, rest[k]) = Note(o, rest[k])
    BY <2>3, <2>4
  <2>6. Notes(o2, rest) = Notes(o, rest)
    BY <2>5 DEF Notes
  <2>. QED
    BY <2>6 DEF rest
<1>. HIDE DEF forms, names
<1>8. /\ Look(o2, i) = DrawnOver(Look(o, i), Drawn(o2, names, s), Notes(o2, o2[i].annots))
      /\ Readable(o2, o2[i], Inherited(o2, i, MaxLevels))
  BY <1>2 DEF PaintedLooks, names
<1>9. Look(o2, i) = DrawnOver(Look(o, i), forms, Notes(o, RestOf(o, i)))
  BY <1>1, <1>6, <1>7, <1>8
<1>. QED
  BY <1>8, <1>9 DEF forms, widgets

\* What is kept of a page's notes is the notes of what is kept.
LEMMA NotesOnly ==
    ASSUME NEW o, NEW U, NEW s \in Seq(U), NEW S, NEW T,
           \A k \in DOMAIN s : s[k] \in S <=> Note(o, s[k]) \in T
    PROVE  Only(Notes(o, s), T) = Notes(o, Only(s, S)) /\ DOMAIN Notes(o, Only(s, S)) = DOMAIN Only(s, S)
<1>. DEFINE K == {k \in DOMAIN s : s[k] \in S}
            at == InOrder(K)
            notes == Notes(o, s)
            some == Only(s, S)
<1>1. DOMAIN notes = DOMAIN s /\ \A k \in DOMAIN s : notes[k] = Note(o, s[k])
  BY DEF Notes
<1>2. {k \in DOMAIN notes : notes[k] \in T} = K
  BY <1>1
<1>3. K \subseteq Nat /\ IsFiniteSet(K)
  <2>1. IsFiniteSet(1 .. Len(s)) /\ K \in SUBSET (1 .. Len(s))
    BY FS_Interval
  <2>. QED
    BY <2>1, FS_Subset
<1>. HIDE DEF notes
<1>4. Only(notes, T) = [n \in DOMAIN at |-> notes[at[n]]]
  BY <1>2 DEF Only
<1>5. some = [n \in DOMAIN at |-> s[at[n]]]
  BY DEF Only
<1>6. \A n \in DOMAIN at : at[n] \in DOMAIN s
  <2>1. K \subseteq DOMAIN s
    OBVIOUS
  <2>. HIDE DEF K
  <2>2. at \in [1 .. Cardinality(K) -> K]
    BY <1>3, InOrderFacts
  <2>. HIDE DEF at
  <2>. QED
    BY <2>1, <2>2
<1>. HIDE DEF at, some
<1>7. Notes(o, some) = [n \in DOMAIN at |-> Note(o, some[n])]
  BY <1>5 DEF Notes
<1>8. \A n \in DOMAIN at : notes[at[n]] = Note(o, some[n])
  BY <1>1, <1>5, <1>6
<1>9. Only(notes, T) = Notes(o, some)
  BY <1>4, <1>7, <1>8
<1>10. DOMAIN Notes(o, some) = DOMAIN some
  BY DEF Notes
<1>. QED
  BY <1>9, <1>10 DEF notes, some

\* The list of pages sifts as the document does.
LEMMA ListOnly == \A s, S : List!Only(s, S) = Only(s, S)
<1>1. \A S : List!InOrder(S) = InOrder(S)
  BY DEF List!InOrder, InOrder, List!Cardinality, Cardinality
<1>. SUFFICES ASSUME NEW s, NEW S PROVE List!Only(s, S) = Only(s, S)
  OBVIOUS
<1>. DEFINE K == {k \in DOMAIN s : s[k] \in S}
            at == InOrder(K)
<1>2. List!Only(s, S) = [n \in DOMAIN at |-> s[at[n]]]
  <2>1. List!Only(s, S) = [n \in DOMAIN List!InOrder(K) |-> s[List!InOrder(K)[n]]]
    BY DEF List!Only
  <2>. HIDE DEF K
  <2>2. List!InOrder(K) = at
    BY <1>1
  <2>. QED
    BY <2>1, <2>2
<1>3. Only(s, S) = [n \in DOMAIN at |-> s[at[n]]]
  BY DEF Only
<1>. QED
  BY <1>2, <1>3

\* What the abstract specification makes of a page.
LEMMA FixedPicture ==
    ASSUME NEW a, NEW b, NEW c, NEW d, NEW e, NEW widgets, NEW fields, NEW rest,
           widgets = {x \in ToSet(b) : x.kind = "widget"}, fields = Only(b, widgets),
           rest = Only(b, ToSet(b) \ widgets)
    PROVE  List!Fixed(Picture(a, b, c, d, e))
              = DrawnOver(Picture(a, b, c, d, e), [w \in DOMAIN fields |-> fields[w].shows], rest)
<1>. DEFINE x == Picture(a, b, c, d, e)
            ink == [w \in DOMAIN fields |-> fields[w].shows]
            y == [x EXCEPT !.drawn = @ \o ink]
<1>1. x.annots = b /\ x.drawn = a /\ DOMAIN x = {"drawn", "annots", "rotate", "crop", "media"}
  BY DEF Picture
<1>. HIDE DEF x, ink
<1>2. y.annots = b
  BY <1>1
<1>3. List!ToSet(b) = ToSet(b)
  BY DEF List!ToSet, ToSet
<1>4. {z \in List!ToSet(x.annots) : z.kind = "widget"} = widgets
  BY <1>1, <1>3
<1>5. List!Only(x.annots, widgets) = fields
  BY <1>1, ListOnly
<1>6. List!Only(b, List!ToSet(b) \ widgets) = rest
  BY <1>3, ListOnly
<1>7. List!Fixed(x) = [x EXCEPT !.drawn = @ \o ink,
                                !.annots = List!Only(@, List!ToSet(@) \ widgets)]
  BY <1>4, <1>5 DEF List!Fixed, ink
<1>8. List!Fixed(x) = [x EXCEPT !.drawn = @ \o ink, !.annots = rest]
  BY <1>1, <1>2, <1>6, <1>7
<1>. QED
  BY <1>8 DEF DrawnOver, x, ink

\* What the list of pages says of a flattened page: what was drawn, the looks of
\* its widgets over it, and the other annotations.
LEMMA FixedLook ==
    ASSUME NEW o, Web(o, DOMAIN o), NEW i \in DOMAIN o
    PROVE  List!Fixed(Look(o, i))
              = DrawnOver(Look(o, i),
                     [w \in DOMAIN WidgetsOf(o, i) |-> Note(o, WidgetsOf(o, i)[w]).shows],
                     Notes(o, RestOf(o, i)))
<1>. DEFINE D == DOMAIN o
            annots == o[i].annots
            b == Notes(o, annots)
            widgets == {x \in ToSet(b) : x.kind = "widget"}
            fields == Only(b, widgets)
            rest == Only(b, ToSet(b) \ widgets)
            mine == WidgetsOf(o, i)
            left == RestOf(o, i)
<1>1. annots \in Seq(D)
  BY DEF Web, Shaped
<1>. HIDE DEF annots, D
<1>2. ASSUME NEW k \in DOMAIN annots
      PROVE  /\ annots[k] \in OfKind(o, "widget") <=> Note(o, annots[k]) \in widgets
             /\ annots[k] \in D \ OfKind(o, "widget") <=> Note(o, annots[k]) \in ToSet(b) \ widgets
  <2>1. annots[k] \in D
    BY <1>1
  <2>2. Note(o, annots[k]) \in ToSet(b)
    BY DEF Notes, ToSet
  <2>3. Note(o, annots[k]).kind = o[annots[k]].kind
    BY DEF Note
  <2>. QED
    BY <2>1, <2>2, <2>3 DEF OfKind, D
<1>3. fields = Notes(o, mine) /\ DOMAIN Notes(o, mine) = DOMAIN mine
  <2>1. mine = Only(annots, OfKind(o, "widget"))
    BY DEF WidgetsOf, annots
  <2>2. \A k \in DOMAIN annots : annots[k] \in OfKind(o, "widget") <=> Note(o, annots[k]) \in widgets
    BY <1>2
  <2>. HIDE DEF mine, widgets
  <2>. QED
    BY <1>1, <2>1, <2>2, NotesOnly
<1>4. rest = Notes(o, left)
  <2>. DEFINE S == D \ OfKind(o, "widget")
              T == ToSet(b) \ widgets
  <2>1. left = Only(annots, S)
    BY DEF RestOf, annots, D
  <2>2. \A k \in DOMAIN annots : annots[k] \in S <=> Note(o, annots[k]) \in T
    BY <1>2
  <2>. HIDE DEF left, S, T
  <2>3. Only(b, T) = Notes(o, left)
    BY <1>1, <2>1, <2>2, NotesOnly
  <2>. QED
    BY <2>3 DEF T
<1>5. [w \in DOMAIN fields |-> fields[w].shows] = [w \in DOMAIN mine |-> Note(o, mine[w]).shows]
  <2>. HIDE DEF fields, mine
  <2>. QED
    BY <1>3 DEF Notes
<1>6. Look(o, i).annots = b
  BY PageViewParts DEF Look, annots
<1>7. PICK r, c, m : Look(o, i) = Picture(Look(o, i).drawn, Look(o, i).annots, r, c, m)
  BY LookPicture
<1>. DEFINE a == Look(o, i).drawn
            ink == [w \in DOMAIN fields |-> fields[w].shows]
<1>8. Look(o, i) = Picture(a, b, r, c, m)
  BY <1>6, <1>7
<1>9. List!Fixed(Picture(a, b, r, c, m)) = DrawnOver(Picture(a, b, r, c, m), ink, rest)
  <2>1. widgets = {x \in ToSet(b) : x.kind = "widget"} /\ fields = Only(b, widgets)
        /\ rest = Only(b, ToSet(b) \ widgets)
    OBVIOUS
  <2>. HIDE DEF a, b, widgets, fields, rest
  <2>. QED
    BY <2>1, FixedPicture
<1>. HIDE DEF a, b, fields, rest, widgets
<1>10. List!Fixed(Look(o, i)) = DrawnOver(Look(o, i), ink, rest)
  BY <1>8, <1>9
<1>. HIDE DEF ink, left, mine
<1>11. ink = [w \in DOMAIN mine |-> Note(o, mine[w]).shows]
  BY <1>5 DEF ink
<1>. QED
  BY <1>4, <1>10, <1>11 DEF left, mine

\* All of a sequence is kept where all of its elements are.
LEMMA OnlyAll ==
    ASSUME NEW S, NEW s \in Seq(S)
    PROVE  Only(s, S) = s
<1>. DEFINE T == {x \in Seq(S) : Only(x, S) = x}
<1>1. <<>> \in T
  BY OnlyNothing
<1>2. ASSUME NEW x \in Seq(S), NEW y \in S, x \in T PROVE Append(x, y) \in T
  <2>1. Only(Append(x, y), S) = Append(Only(x, S), y)
    BY OnlyAppend
  <2>. QED
    BY <1>2, <2>1
<1>. HIDE DEF T
<1>3. s \in T
  BY <1>1, <1>2, SequenceInduction
<1>. QED
  BY <1>3 DEF T

\* What a page draws is a list.
LEMMA InkList ==
    ASSUME NEW o, Web(o, DOMAIN o), NEW i \in DOMAIN o, Readable(o, o[i], Inherited(o, i, MaxLevels))
    PROVE  \E U : Look(o, i).drawn \in Seq(U)
<1>. DEFINE found == Inherited(o, i, MaxLevels)
            names == Named(found)
            contents == o[i].contents
<1>1. Look(o, i).drawn = Ink(o, names, contents)
  BY PageViewParts DEF Look
<1>2. contents \in Seq(DOMAIN o)
  BY DEF Web, Shaped
<1>3. \A s \in ToSet(contents) : o[s].draws \in Seq(ToSet(o[s].draws))
  BY DEF Readable
<1>. HIDE DEF contents, names
<1>4. CASE contents = <<>>
  <2>1. [k \in DOMAIN contents |-> Drawn(o, names, contents[k])] = <<>>
    BY <1>4
  <2>2. Ink(o, names, contents) = <<>>
    BY <2>1, FlattenNothing DEF Ink
  <2>. QED
    BY <1>1, <2>2
<1>5. CASE contents # <<>>
  <2>. DEFINE c == contents[1]
  <2>1. c \in DOMAIN o /\ 1 \in DOMAIN contents
    BY <1>2, <1>5
  <2>2. c \in ToSet(contents)
    BY <2>1 DEF ToSet
  <2>3. \A s \in ToSet(contents) \cup {c} : o[s].draws \in Seq(ToSet(o[s].draws))
    BY <1>3, <2>2
  <2>. HIDE DEF c
  <2>4. \E U : Ink(o, names, contents) \in Seq(U) /\ Drawn(o, names, c) \in Seq(U)
    BY <1>2, <2>1, <2>3, InkAppended
  <2>. QED
    BY <1>1, <2>4
<1>. QED
  BY <1>4, <1>5

\* A page without widgets is as it should be.
LEMMA PlainFixed ==
    ASSUME NEW o, Web(o, DOMAIN o), NEW i \in DOMAIN o, Readable(o, o[i], Inherited(o, i, MaxLevels)),
           WidgetsOf(o, i) = <<>>
    PROVE  List!Fixed(Look(o, i)) = Look(o, i)
<1>. DEFINE annots == o[i].annots
            others == DOMAIN o \ OfKind(o, "widget")
            look == Look(o, i)
            ink == [w \in DOMAIN WidgetsOf(o, i) |-> Note(o, WidgetsOf(o, i)[w]).shows]
<1>1. annots \in Seq(DOMAIN o)
  BY DEF Web, Shaped
<1>2. ToSet(annots) \cap OfKind(o, "widget") = {}
  <2>1. ToSet(Only(annots, OfKind(o, "widget"))) = ToSet(annots) \cap OfKind(o, "widget")
    <3>. HIDE DEF annots
    <3>. QED
      BY <1>1, OnlyFacts
  <2>2. Only(annots, OfKind(o, "widget")) = <<>>
    BY DEF WidgetsOf
  <2>3. ToSet(<<>>) = {}
    BY DEF ToSet
  <2>. QED
    BY <2>1, <2>2, <2>3
<1>3. RestOf(o, i) = annots
  <2>1. ToSet(annots) \subseteq others
    <3>1. ToSet(annots) \subseteq DOMAIN o
      <4>. HIDE DEF annots
      <4>. QED
        BY <1>1 DEF ToSet
    <3>. QED
      BY <1>2, <3>1
  <2>2. RestOf(o, i) = Only(annots, others)
    BY DEF RestOf
  <2>. HIDE DEF annots, others
  <2>3. annots \in Seq(ToSet(annots))
    BY <1>1, SeqNarrowed
  <2>4. annots \in Seq(others)
    BY <2>1, <2>3
  <2>. QED
    BY <2>2, <2>4, OnlyAll
<1>4. ink = <<>>
  OBVIOUS
<1>5. look.annots = Notes(o, annots)
  BY PageViewParts DEF Look
<1>6. List!Fixed(look) = DrawnOver(look, <<>>, look.annots)
  <2>1. List!Fixed(look) = DrawnOver(look, ink, Notes(o, RestOf(o, i)))
    BY FixedLook
  <2>. HIDE DEF look, ink, annots
  <2>. QED
    BY <1>3, <1>4, <1>5, <2>1
<1>7. PICK U : look.drawn \in Seq(U)
  BY InkList
<1>8. PICK r, c, m : look = Picture(look.drawn, look.annots, r, c, m)
  BY LookPicture
<1>9. DrawnOver(look, <<>>, look.annots) = look
  <2>. HIDE DEF look
  <2>. DEFINE a == look.drawn
              b == look.annots
  <2>1. look = Picture(a, b, r, c, m)
    BY <1>8
  <2>2. a \o <<>> = a
    BY <1>7
  <2>. DEFINE nothing == <<>>
  <2>. HIDE DEF a, b, nothing
  <2>3. DrawnOver(Picture(a, b, r, c, m), nothing, b) = Picture(a \o nothing, b, r, c, m)
    BY PictureOver
  <2>4. DrawnOver(look, nothing, b) = look
    BY <2>1, <2>2, <2>3 DEF nothing
  <2>. QED
    BY <2>4 DEF b, nothing
<1>. QED
  BY <1>6, <1>9

\* What becomes of each page.
FlatFixed(o2, o, i) ==
    Look(o2, i) = List!Fixed(Look(o, i)) /\ Readable(o2, o2[i], Inherited(o2, i, MaxLevels))

\* Every page of the flattened document looks as the list of pages says.
LEMMA FlattenedLooks ==
    ASSUME NEW o, NEW root, Woven(o, root, DOMAIN o), Legible(o), NEW o2, Touched(o2, o),
           NEW flat, NEW last, Flattened(o2, o, flat, last), NEW i \in OfKind(o, "page")
    PROVE  FlatFixed(o2, o, i)
<1>1. Readable(o, o[i], Inherited(o, i, MaxLevels)) /\ i \in DOMAIN o /\ Web(o, DOMAIN o)
  BY DEF Legible, OfKind, Woven
<1>2. CASE i \in flat
  <2>. DEFINE s == StreamOf(last, flat, i)
  <2>1. s \in DOMAIN o2 /\ o2[s].draws = FormUses(o, i) /\ o2[i] = FlatPage(o, i, s)
    BY <1>2 DEF Flattened
  <2>2. \A w \in ToSet(WidgetsOf(o, i)) : o[w].appearance # 0
    BY <1>2 DEF Flattened
  <2>. HIDE DEF s
  <2>. DEFINE ink == [w \in DOMAIN WidgetsOf(o, i) |-> Note(o, WidgetsOf(o, i)[w]).shows]
              notes == Notes(o, RestOf(o, i))
  <2>3. /\ Look(o2, i) = DrawnOver(Look(o, i), ink, notes)
        /\ Readable(o2, o2[i], Inherited(o2, i, MaxLevels))
    BY <1>1, <2>1, <2>2, FlatLook
  <2>4. List!Fixed(Look(o, i)) = DrawnOver(Look(o, i), ink, notes)
    BY <1>1, FixedLook
  <2>. HIDE DEF ink, notes
  <2>. QED
    BY <2>3, <2>4 DEF FlatFixed
<1>3. CASE i \notin flat
  <2>1. o2[i] = o[i] /\ WidgetsOf(o, i) = <<>>
    BY <1>3 DEF Flattened
  <2>2. Look(o2, i) = Look(o, i) /\ Readable(o2, o2[i], Inherited(o2, i, MaxLevels))
    BY <1>1, <2>1, UntouchedLook
  <2>3. List!Fixed(Look(o, i)) = Look(o, i)
    BY <1>1, <2>1, PlainFixed
  <2>. QED
    BY <2>2, <2>3 DEF FlatFixed
<1>. QED
  BY <1>2, <1>3

\* What is handed back pruned, with all that it had, shows its pages.
LEMMA TidiedShows ==
    ASSUME NEW e, NEW o, NEW root, NEW trailer, Tidied(e, o, root, DOMAIN o, trailer),
           o = [i \in DOMAIN o |-> o[i]], Legible(o)
    PROVE  Legible(e.objects) /\ View(e) = Looks(o, Leaves(o, MaxLevels)[root])
<1>. DEFINE K == DOMAIN o
<1>1. Narrow(o, K) = o
  BY DEF Narrow
<1>2. /\ e = Renumbered(Pruned([objects |-> o, root |-> root], trailer), 1) /\ trailer \in BOOLEAN
      /\ IsFiniteSet(DOMAIN o) /\ K \in SUBSET DOMAIN o /\ Woven(o, root, K)
      /\ OfKind(o, "catalog") \cup OfKind(o, "info") \subseteq K
  BY DEF Tidied
<1>3. Legible(Narrow(o, K))
  BY <1>1
<1>4. Legible(e.objects) /\ View(e) = Looks(Narrow(o, K), Leaves(Narrow(o, K), MaxLevels)[root])
  BY <1>2, <1>3, TidiedView
<1>. QED
  BY <1>1, <1>4

\* flatten.rs makes the widgets of every page content, and leaves the rest.
LEMMA FlattenLists ==
    ASSUME Good(doc), Legible(doc.objects), shown = View(doc), Flatten
    PROVE  List!Flatten /\ Legible(doc'.objects)
<1>. DEFINE o == doc.objects
            ids == PageIds(doc)
<1>1. Woven(o, doc.root, DOMAIN o) /\ Web(o, DOMAIN o)
  BY GoodFacts
<1>2. shown' = View(doc') /\ request' = [op |-> "flatten"]
  BY DEF Flatten, Answer
<1>3. shown = Looks(o, ids) /\ ToSet(ids) = OfKind(o, "page")
  BY <1>1, ViewOf, WovenPages
<1>4. Looks(o, ids) = [p \in DOMAIN ids |-> Look(o, ids[p])]
  BY DEF Looks
<1>5. \A p \in DOMAIN ids : ids[p] \in OfKind(o, "page")
  <2>. HIDE DEF ids
  <2>. QED
    BY <1>3 DEF ToSet
<1>6. CASE doc' = doc /\ \A i \in OfKind(o, "page") : WidgetsOf(o, i) = <<>>
  <2>1. shown' = shown /\ doc'.objects = o
    BY <1>2, <1>6
  <2>2. \A i \in OfKind(o, "page") : List!Fixed(Look(o, i)) = Look(o, i)
    <3>. SUFFICES ASSUME NEW i \in OfKind(o, "page") PROVE List!Fixed(Look(o, i)) = Look(o, i)
      OBVIOUS
    <3>1. i \in DOMAIN o /\ Readable(o, o[i], Inherited(o, i, MaxLevels)) /\ WidgetsOf(o, i) = <<>>
      BY <1>6 DEF Legible, OfKind
    <3>. QED
      BY <1>1, <3>1, PlainFixed
  <2>. HIDE DEF ids, o
  <2>3. shown = [p \in DOMAIN shown |-> List!Fixed(shown[p])]
    BY <1>3, <1>4, <1>5, <2>2
  <2>4. List!Flatten
    BY <1>2, <2>1, <2>3 DEF List!Flatten
  <2>. QED
    BY <2>1, <2>4 DEF o
<1>7. CASE \E o2, flat, last : /\ Tidied(doc', o2, doc.root, DOMAIN o2, TRUE)
                               /\ Touched(o2, doc.objects)
                               /\ Flattened(o2, doc.objects, flat, last)
  <2>1. PICK o2, flat, last : /\ Tidied(doc', o2, doc.root, DOMAIN o2, TRUE)
                              /\ Touched(o2, o)
                              /\ Flattened(o2, o, flat, last)
    BY <1>7
  <2>2. \A i \in OfKind(o, "page") : FlatFixed(o2, o, i)
    BY <1>1, <2>1, FlattenedLooks
  <2>3. Woven(o2, doc.root, DOMAIN o2)
    BY <2>1 DEF Tidied
  <2>. DEFINE e == [objects |-> o2, root |-> doc.root]
  <2>4. PageIds(e) = ids /\ OfKind(o2, "page") = OfKind(o, "page")
    <3>1. e.objects = o2 /\ e.root = doc.root
      OBVIOUS
    <3>. HIDE DEF e
    <3>. QED
      BY <1>1, <2>1, <2>3, <3>1, InPlaceView
  <2>5. Leaves(o2, MaxLevels)[doc.root] = ids
    BY <2>4 DEF PageIds
  <2>6. Legible(o2)
    BY <2>2, <2>4 DEF Legible, FlatFixed
  <2>7. o2 = [i \in DOMAIN o2 |-> o2[i]]
    BY <2>1 DEF Flattened
  <2>. HIDE DEF ids
  <2>8. Legible(doc'.objects) /\ View(doc') = Looks(o2, ids)
    BY <2>1, <2>5, <2>6, <2>7, TidiedShows
  <2>9. shown' = [p \in DOMAIN ids |-> Look(o2, ids[p])]
    BY <1>2, <2>8 DEF Looks
  <2>10. \A p \in DOMAIN ids : Look(o2, ids[p]) = List!Fixed(Look(o, ids[p]))
    BY <1>5, <2>2 DEF FlatFixed
  <2>. HIDE DEF o
  <2>11. shown' = [p \in DOMAIN shown |-> List!Fixed(shown[p])]
    BY <1>3, <1>4, <2>9, <2>10
  <2>12. List!Flatten
    BY <1>2, <2>11 DEF List!Flatten
  <2>. QED
    BY <2>8, <2>12
<1>. QED
  BY <1>6, <1>7, FlattenBuilt

-----------------------------------------------------------------------------
(* Operations follow each other *)

\* What every operation of a viewer's document finds when it starts.
Exact == Held /\ shown = View(doc) /\ (~damaged => Legible(doc.objects))

\* What an operation did is what the list of pages says of it.
Exactly == List!Next /\ Legible(doc'.objects)

\* Every edit does to the pages shown what was asked for,
LEMMA EditExact ==
    ASSUME Good(doc), Legible(doc.objects), shown = View(doc), Edit
    PROVE  Exactly /\ shown' = View(doc')
<1>1. ASSUME NEW ranges \in SeqOf(Ranges, 2), NEW angle \in Angles, Rotate(ranges, angle)
      PROVE  Exactly /\ shown' = View(doc')
  <2>1. shown' = View(doc')
    BY <1>1 DEF Rotate, Answer
  <2>. QED
    BY <1>1, <2>1, RotateLists DEF Exactly, List!Next
<1>2. ASSUME NEW ranges \in SeqOf(Ranges, 2), NEW box \in Boxes, Crop(ranges, box)
      PROVE  Exactly /\ shown' = View(doc')
  <2>1. shown' = View(doc')
    BY <1>2 DEF Crop, Answer
  <2>. QED
    BY <1>2, <2>1, CropLists DEF Exactly, List!Next
<1>3. ASSUME NEW ranges \in SeqOf(Ranges, 2), NEW mark \in Marks, Watermark(ranges, mark)
      PROVE  Exactly /\ shown' = View(doc')
  <2>1. shown' = View(doc')
    BY <1>3 DEF Watermark, Answer
  <2>. QED
    BY <1>3, <2>1, WatermarkLists DEF Exactly, List!Next
<1>4. ASSUME Flatten PROVE Exactly /\ shown' = View(doc')
  <2>1. shown' = View(doc')
    BY <1>4 DEF Flatten, Answer
  <2>. QED
    BY <1>4, <2>1, FlattenLists DEF Exactly, List!Next
<1>5. ASSUME NEW order \in SeqOf(0 .. MaxPages, MaxPages), Reorder(order)
      PROVE  Exactly /\ shown' = View(doc')
  <2>1. shown' = View(doc')
    BY <1>5 DEF Reorder, Answer
  <2>. QED
    BY <1>5, <2>1, ReorderLists DEF Exactly, List!Next
<1>. QED
  BY <1>1, <1>2, <1>3, <1>4, <1>5 DEF Edit

\* splitting does,
LEMMA SplitExact ==
    ASSUME Good(doc), Legible(doc.objects), shown = View(doc), NEW range \in Ranges, Split(range)
    PROVE  Exactly /\ shown' = View(doc')
<1>1. shown' = View(doc')
  BY DEF Split, Answer
<1>. QED
  BY <1>1, SplitLists DEF Exactly, List!Next

\* A merge shows what it made, whatever that is,
LEMMA MergeViews ==
    ASSUME NEW docs, NEW r, Merge(docs, r)
    PROVE  shown' = View(doc')
BY DEF Merge, MergeOf, Combine, Output, Answer

\* and merging does, unless it gave a page's number away.
LEMMA MergeExact ==
    ASSUME Good(doc), Legible(doc.objects), shown = View(doc)
    PROVE  /\ MergeAlone => (damaged' \/ Exactly) /\ shown' = View(doc')
           /\ \A other \in Documents, before \in BOOLEAN :
                 MergeWith(other, before) => (damaged' \/ Exactly) /\ shown' = View(doc')
<1>1. ASSUME MergeAlone PROVE (damaged' \/ Exactly) /\ shown' = View(doc')
  <2>1. shown' = View(doc')
    BY <1>1, MergeViews DEF MergeAlone
  <2>2. CASE ~damaged'
    BY <1>1, <2>1, <2>2, MergeLists DEF Exactly, List!Next
  <2>. QED
    BY <2>1, <2>2
<1>2. ASSUME NEW other \in Documents, NEW before \in BOOLEAN, MergeWith(other, before)
      PROVE  (damaged' \/ Exactly) /\ shown' = View(doc')
  <2>1. shown' = View(doc')
    BY <1>2, MergeViews DEF MergeWith
  <2>2. CASE ~damaged'
    BY <1>2, <2>1, <2>2, MergeLists DEF Exactly, List!Next
  <2>. QED
    BY <2>1, <2>2
<1>. QED
  BY <1>1, <1>2

\* A document in use is good and legible, and shown as it is.
LEMMA UsefulExact ==
    ASSUME Exact, Useful
    PROVE  Good(doc) /\ Legible(doc.objects) /\ shown = View(doc)
BY UsefulGood DEF Exact, Useful

\* At the start it is shown as it is,
LEMMA InitExact == Init => Exact
<1>. SUFFICES ASSUME Init PROVE Exact
  OBVIOUS
<1>1. Legible(doc.objects)
  BY DocumentsAssumption DEF Init
<1>2. shown = View(doc)
  BY DEF Init
<1>. QED
  BY <1>1, <1>2, InitHeld DEF Exact

\* every operation leaves it so, having done what was asked,
LEMMA NextExact ==
    ASSUME Exact, Next
    PROVE  Exact' /\ (List!Next \/ damaged')
<1>1. Good(doc) /\ Legible(doc.objects) /\ shown = View(doc)
  BY UsefulExact DEF Next
<1>2. (damaged' \/ Exactly) /\ shown' = View(doc')
  <2>1. CASE Edit
    BY <1>1, <2>1, EditExact
  <2>2. ASSUME NEW range \in Ranges, Split(range) PROVE Exactly /\ shown' = View(doc')
    BY <1>1, <2>2, SplitExact
  <2>. QED
    BY <1>1, <2>1, <2>2, MergeExact DEF Next
<1>3. Held'
  BY NextHeld DEF Exact
<1>4. ~damaged' => Legible(doc'.objects)
  BY <1>2 DEF Exactly
<1>5. Exact'
  BY <1>2, <1>3, <1>4 DEF Exact
<1>. QED
  BY <1>2, <1>5 DEF Exactly

\* and nothing else changes it.
LEMMA StillExact ==
    ASSUME Exact, UNCHANGED vars
    PROVE  Exact'
<1>1. Held'
  BY StillHeld DEF Exact
<1>2. doc' = doc /\ shown' = shown /\ damaged' = damaged
  BY DEF vars
<1>. QED
  BY <1>1, <1>2 DEF Exact

\* Whatever the documents are and however operations follow each other, each
\* does to the pages a viewer shows what was asked and nothing else, unless a
\* merge gave a page's number away: PdfPages implements PageList.
THEOREM PagesImplementList == Spec => ImplementsPageList
<1>1. ASSUME Exact, [Next]_vars
      PROVE  Exact' /\ [List!Next \/ damaged']_<<doc, shown, requests>>
  <2>1. CASE Next
    BY <1>1, <2>1, NextExact
  <2>2. CASE UNCHANGED vars
    <3>1. UNCHANGED <<doc, shown, requests>>
      BY <2>2 DEF vars
    <3>. QED
      BY <1>1, <2>2, <3>1, StillExact
  <2>. QED
    BY <1>1, <2>1, <2>2
<1>. QED
  BY <1>1, InitExact, PTL DEF Spec, ImplementsPageList

-----------------------------------------------------------------------------
(* The document *)

\* Edits, splits and merges of jobs are operations of the engine.
LEMMA WorkIsNext ==
    ASSUME Useful, NEW job, Work(job) PROVE Next
<1>1. CASE Edit
  BY <1>1 DEF Next
<1>2. ASSUME NEW range \in Ranges, Split(range) PROVE Next
  BY <1>2 DEF Next
<1>3. CASE MergeAlone
  BY <1>3 DEF Next
<1>4. ASSUME NEW other \in Documents, NEW before \in BOOLEAN, MergeWith(other, before)
      PROVE  Next
  BY <1>4 DEF Next
<1>. QED
  BY <1>1, <1>2, <1>3, <1>4 DEF Work

\* What a step of the page and its workers is to the list of pages.
Listed == List!Next \/ damaged' \/ UNCHANGED <<doc, shown, requests>>

\* A step that leaves the engine alone,
LEMMA IdleExact ==
    ASSUME Exact, UNCHANGED vars PROVE Exact' /\ Listed
<1>1. UNCHANGED <<doc, shown, requests>>
  BY DEF vars
<1>. QED
  BY <1>1, StillExact DEF Listed

\* one that forgets what was asked for, the answer having been used,
LEMMA ForgetExact ==
    ASSUME Exact, Forget PROVE Exact' /\ Listed
<1>1. doc' = doc /\ shown' = shown /\ requests' = requests /\ damaged' = damaged
  BY DEF Forget
<1>2. Held'
  BY DEF Exact, Held, TypeOK, StaysSound, Typed, Forget, NoRequest
<1>. QED
  BY <1>1, <1>2 DEF Exact, Listed

\* and every other step keep the document exact.
LEMMA StepExact == Exact /\ [Step]_allVars => Exact' /\ Listed
<1>. SUFFICES ASSUME Exact, [Step]_allVars PROVE Exact' /\ Listed
  OBVIOUS
<1>1. CASE UNCHANGED vars
  BY <1>1, IdleExact
<1>2. CASE \/ \E choice \in Offered : ChangeOperation(choice)
           \/ \E n \in 0 .. 2 : ChooseFiles(n)
           \/ Mistake
           \/ Process
  <2>1. UNCHANGED vars
    BY <1>2 DEF ChangeOperation, ChooseFiles, Mistake, Process
  <2>. QED
    BY <1>1, <2>1
<1>3. ASSUME NEW j \in DOMAIN jobs,
             \/ NotStarted(j) \/ Post(j) \/ PostFails(j) \/ OnRefusal(j)
             \/ Refuse(j) \/ FallSilent(j) \/ NotLoaded(j)
      PROVE  Exact' /\ Listed
  <2>1. UNCHANGED vars
    BY <1>3 DEF NotStarted, Post, PostFails, OnRefusal, Refuse, FallSilent, NotLoaded, GiveUp
  <2>. QED
    BY <1>1, <2>1
<1>4. ASSUME NEW j \in DOMAIN jobs, OnAnswer(j) PROVE Exact' /\ Listed
  <2>1. Forget
    BY <1>4 DEF OnAnswer
  <2>. QED
    BY <2>1, ForgetExact
<1>5. ASSUME NEW j \in DOMAIN jobs, Succeed(j) PROVE Exact' /\ Listed
  <2>1. CASE Followed(jobs[j])
    <3>1. Useful /\ Work(jobs[j])
      BY <1>5, <2>1 DEF Succeed, Followed
    <3>. QED
      BY <3>1, WorkIsNext, NextExact DEF Listed
  <2>2. CASE ~Followed(jobs[j])
    <3>1. UNCHANGED vars
      BY <1>5, <2>2 DEF Succeed
    <3>. QED
      BY <1>1, <3>1
  <2>. QED
    BY <2>1, <2>2
<1>6. UNCHANGED allVars => UNCHANGED vars
  BY DEF allVars
<1>. QED
  BY <1>1, <1>2, <1>3, <1>4, <1>5, <1>6 DEF Step

LEMMA DocumentExact == WorkbenchSpec => []Exact
<1>1. Start => Exact
  BY InitExact DEF Start
<1>2. Exact /\ [Step]_allVars => Exact'
  BY StepExact
<1>. QED
  BY <1>1, <1>2, PTL DEF WorkbenchSpec

\* Every variable of the page and of the engine keeps its type, for any
\* documents, jobs, faults and requests: what objects refer to by number
\* exists, rotations are quarter turns, and what is offered was made.
THEOREM TypeCorrect == WorkbenchSpec => []WorkbenchTypeOK
<1>1. PageTypeOK /\ Exact => WorkbenchTypeOK
  BY DEF WorkbenchTypeOK, Exact, Held
<1>. QED
  BY <1>1, PageInductive, DocumentExact, PTL

\* However jobs follow each other, each one's result the next one's file, the
\* document handed back is sound, unless a merge gave a page's number away.
THEOREM DocumentSound == WorkbenchSpec => []StaysSound
<1>1. Exact => StaysSound
  BY DEF Exact, Held
<1>. QED
  BY <1>1, DocumentExact, PTL

\* However jobs follow each other, each does to the pages a viewer shows what
\* was asked of it and nothing else, unless a merge gave a page's number away;
\* and nothing else that happens to the page or its workers changes them.
THEOREM WorkbenchImplementsList == WorkbenchSpec => ImplementsPageList
<1>1. Exact /\ [Step]_allVars => [List!Next \/ damaged']_<<doc, shown, requests>>
  BY StepExact DEF Listed
<1>. QED
  BY <1>1, DocumentExact, PTL DEF WorkbenchSpec, ImplementsPageList
=============================================================================
