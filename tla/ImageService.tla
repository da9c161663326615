---------------------------- MODULE ImageService ----------------------------
(***************************************************************************)
(* The image service (qwen-image/app.py), which keeps one pipeline on the  *)
(* GPU, and proxy_image of server.py, which waits for it, fetches the      *)
(* image, keeps a copy and appends a record to history.jsonl.  A request   *)
(* of the proxy is a job of the service; when the proxy gives it up the    *)
(* job goes on.  Either process may stop and come back.                    *)
(***************************************************************************)
CONSTANTS
  Images,  \* requests for an image
  Idle     \* nobody

VARIABLES
  pipeline,  \* pipeline: its kind and whether it is on the GPU
  loaded,    \* pipeline_kind
  gpu,       \* holder of the lock of the service
  job,       \* job[r]: where the service is with r
  wanted,    \* wanted[r]: "generate" or "edit"
  proxy,     \* proxy[r]: where the handler of the web server is
  copies,    \* requests whose image is in GENERATED_DIR
  records,   \* requests whose record is a line of history.jsonl
  writer,    \* holder of image_history_lock
  torn,      \* a line of history.jsonl is no JSON
  damaged    \* history: an append was cut short

service == <<pipeline, loaded, gpu, job>>
web == <<proxy, copies, records, writer, torn, damaged>>
vars == <<service, wanted, web>>

PipelineKinds == {"generate", "edit"}
NoPipeline == [kind |-> "none", ready |-> FALSE]
Under == {"get", "load", "move", "use"}  \* places under the lock of the service
Open == {"waiting", "copy", "record", "append"}  \* places of a handler at work

Init ==
  /\ pipeline = NoPipeline /\ loaded = "none"
  /\ gpu = Idle
  /\ job = [r \in Images |-> "none"]
  /\ wanted = [r \in Images |-> "generate"]
  /\ proxy = [r \in Images |-> "idle"]
  /\ copies = {} /\ records = {}
  /\ writer = Idle /\ torn = FALSE /\ damaged = FALSE

At(r, place) == job' = [job EXCEPT ![r] = place]
Answer(r, place) == proxy' = [proxy EXCEPT ![r] = place]
-----------------------------------------------------------------------------
(* The service.                                                            *)

Lock(r) ==
  /\ job[r] = "queued" /\ gpu = Idle
  /\ gpu' = r
  /\ At(r, "get")
  /\ UNCHANGED <<pipeline, loaded, wanted, web>>

Reuse(r) ==
  /\ job[r] = "get"
  /\ pipeline # NoPipeline /\ loaded = wanted[r]
  /\ At(r, "use")
  /\ UNCHANGED <<pipeline, loaded, gpu, wanted, web>>

Unload(r) ==
  /\ job[r] = "get"
  /\ pipeline = NoPipeline \/ loaded # wanted[r]
  /\ pipeline' = NoPipeline /\ loaded' = "none"
  /\ At(r, "load")
  /\ UNCHANGED <<gpu, wanted, web>>

NamedEarly(r) == wanted[r]  \* mutant of NotYetNamed
\* pipeline_kind is set when the pipeline is on the GPU.
NotYetNamed(r) == loaded

Load(r) ==
  /\ job[r] = "load"
  /\ pipeline' = [kind |-> wanted[r], ready |-> FALSE]
  /\ loaded' = NotYetNamed(r)
  /\ At(r, "move")
  /\ UNCHANGED <<gpu, wanted, web>>

Move(r) ==
  /\ job[r] = "move"
  /\ pipeline' = [pipeline EXCEPT !.ready = TRUE]
  /\ loaded' = wanted[r]
  /\ At(r, "use")
  /\ UNCHANGED <<gpu, wanted, web>>

\* An exception while loading or drawing, with the lock left.
JobFails(r) ==
  /\ job[r] \in {"load", "move", "use"}
  /\ gpu' = Idle
  /\ At(r, "failed")
  /\ UNCHANGED <<pipeline, loaded, wanted, web>>

\* The image is saved after the lock was left.
Draw(r) ==
  /\ job[r] = "use"
  /\ gpu' = Idle
  /\ At(r, "done")
  /\ UNCHANGED <<pipeline, loaded, wanted, web>>

ServiceStops ==
  /\ job' = [r \in Images |-> IF job[r] \in Under \cup {"queued"} THEN "failed" ELSE job[r]]
  /\ pipeline' = NoPipeline /\ loaded' = "none" /\ gpu' = Idle
  /\ UNCHANGED <<wanted, web>>
-----------------------------------------------------------------------------
(* The handler.                                                            *)

Submit(r) ==
  /\ proxy[r] = "idle"
  /\ \E kind \in PipelineKinds : wanted' = [wanted EXCEPT ![r] = kind]
  /\ At(r, "queued")
  /\ Answer(r, "waiting")
  /\ UNCHANGED <<pipeline, loaded, gpu, copies, records, writer, torn, damaged>>

Answered(r) ==
  /\ proxy[r] = "waiting" /\ job[r] = "done"
  /\ Answer(r, "copy")
  /\ UNCHANGED <<service, wanted, copies, records, writer, torn, damaged>>

\* An error of the service, a time limit, or a file that cannot be written.
GivesUp(r) ==
  /\ proxy[r] \in {"waiting", "copy", "record"}
  /\ Answer(r, "failed")
  /\ UNCHANGED <<service, wanted, copies, records, writer, torn, damaged>>

Copy(r) ==
  /\ proxy[r] = "copy"
  /\ copies' = copies \cup {r}
  /\ Answer(r, "record")
  /\ UNCHANGED <<service, wanted, records, writer, torn, damaged>>

AnyWriter == TRUE  \* mutant of Alone
Alone == writer = Idle

\* The first part of the line; two lines written at a time make no line.
BeginAppend(r) ==
  /\ proxy[r] = "record" /\ Alone
  /\ torn' = (torn \/ writer # Idle)
  /\ writer' = r
  /\ Answer(r, "append")
  /\ UNCHANGED <<service, wanted, copies, records, damaged>>

\* The rest; after a line cut short without its end it is part of that line.
EndAppend(r) ==
  /\ proxy[r] = "append"
  /\ records' = IF torn THEN records ELSE records \cup {r}
  /\ writer' = Idle
  /\ Answer(r, "sent")
  /\ UNCHANGED <<service, wanted, copies, torn, damaged>>

\* What is left of an append that is not finished: nothing, a part of the line,
\* or the line.
Interrupted(r) ==
  \/ UNCHANGED <<records, torn, damaged>>
  \/ torn' = TRUE /\ damaged' = TRUE /\ UNCHANGED records
  \/ ~ torn /\ records' = records \cup {r} /\ UNCHANGED <<torn, damaged>>

CutShort(r) ==
  /\ proxy[r] = "append"
  /\ Interrupted(r)
  /\ writer' = Idle
  /\ Answer(r, "failed")
  /\ UNCHANGED <<service, wanted, copies>>

WebStops ==
  /\ proxy' = [r \in Images |-> IF proxy[r] \in Open THEN "failed" ELSE proxy[r]]
  /\ IF writer = Idle THEN UNCHANGED <<records, torn, damaged>> ELSE Interrupted(writer)
  /\ writer' = Idle
  /\ UNCHANGED <<service, wanted, copies>>

Next ==
  \/ \E r \in Images :
       \/ Lock(r) \/ Reuse(r) \/ Unload(r) \/ Load(r) \/ Move(r) \/ JobFails(r) \/ Draw(r)
       \/ Submit(r) \/ Answered(r) \/ GivesUp(r) \/ Copy(r)
       \/ BeginAppend(r) \/ EndAppend(r) \/ CutShort(r)
  \/ ServiceStops \/ WebStops

Spec == Init /\ [][Next]_vars
-----------------------------------------------------------------------------
(* Properties.                                                             *)

\* image_history reads without the lock, and one bad line leaves nothing to show.
\* Of what is read here the page has the last 100 records.
Shown == IF torn \/ writer # Idle THEN {} ELSE records

\* The pipeline a job draws with is of its kind and on the GPU, whatever failed
\* or was given up before it, and stays so until the job is through.
PipelineFits ==
  \A r \in Images :
    job[r] = "use" => pipeline = [kind |-> wanted[r], ready |-> TRUE] /\ gpu = r

\* A request that was answered has its copy and is read from the history, but while
\* a line is being written or after one was cut short; what is read has its copy.
AnsweredInHistory ==
  /\ \A r \in Images :
       proxy[r] = "sent" => r \in copies /\ (r \in Shown \/ writer # Idle \/ damaged)
  /\ Shown \subseteq copies
=============================================================================
