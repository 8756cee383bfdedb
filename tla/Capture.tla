---- MODULE Capture ----
(***************************************************************************)
(* The capture store of main.cpp: what a run with --fetch-subresources     *)
(* writes under its store root, and catalog_present_resources              *)
(* (html_catalog.cpp), which lists what a page names and the run has not   *)
(* fetched.                                                                *)
(*                                                                         *)
(* A run is a process.  It tests for a directory and then creates it,      *)
(* writes a folder with a body and a meta.json for each request and each   *)
(* entry, then run.json and catalog.json.  Any file may fail to open or be *)
(* cut short, the process may end anywhere, and other runs share the root. *)
(* The run's batch is chosen from Batches: Fetch and Subresources have its *)
(* steps.                                                                  *)
(*                                                                         *)
(* Every file is an ofstream that is closed when its function has returned *)
(* the state of the stream: what is still buffered then may be lost, and   *)
(* nobody notices.  metas, runs and catalogs are the files that hold what  *)
(* was written into them: they are small, so one that fails is left empty, *)
(* and write_catalog_json passes over an empty meta.json.                  *)
(*                                                                         *)
(* A folder's name is abstracted to where its resource was found, its      *)
(* number, and the suffix unique_request_dir adds; the slug of the URL is  *)
(* left out, as two URLs may have the same one.                            *)
(***************************************************************************)
EXTENDS Naturals, Sequences, FiniteSets, FiniteSetsExt, Functions

CONSTANTS Run,         \* processes
          Job,         \* of each: the second it starts in and its label
          Concurrent,  \* runs may overlap
          Batches,     \* what fetch_multi may return
          Hints,       \* what each page names, in the order it is scanned
          NoUrl,       \* the empty string
          MaxSuffix,   \* 999, the last suffix unique_request_dir tests
          MaxFailures  \* bound: writes that fail below one run directory

URL == DOMAIN Hints \cup {NoUrl}

\* A FetchResult, and the URL it was asked for, which FetchResult does not keep.
Resource == [ok : BOOLEAN, asked : URL, final : URL, seq : Nat, source : STRING]

Mention == [source : STRING, url : URL, usable : BOOLEAN]

ASSUME CaptureConstants ==
  /\ Job \in [Run -> [second : Nat, label : STRING]]
  /\ Concurrent \in BOOLEAN /\ MaxSuffix \in Nat \ {0} /\ MaxFailures \in Nat

\* An inline script has no URL.
ASSUME HintTypes ==
  \A u \in DOMAIN Hints :
    /\ Hints[u] \in Seq(Mention)
    /\ \A k \in DOMAIN Hints[u] : Hints[u][k].source = "inline_script" => Hints[u][k].url = NoUrl

\* The page's number is 0 (fetcher.cpp:394, 470, 602).
ASSUME BatchTypes ==
  \A b \in Batches :
    /\ b.primary.ok \in BOOLEAN
    /\ b.primary.ok => /\ b \in [primary : Resource, also : Seq(Resource)]
                       /\ b.primary.final \in DOMAIN Hints /\ b.primary.seq = 0

VARIABLES proc,     \* each run: pc, run directory, batch, item, folder, ...
          dirs,     \* run directories
          folders,  \* folders in them
          bodies,   \* body files, by folder: whose body, and whether all of it
          metas,    \* meta.json files, by folder
          runs,     \* run.json files, by run directory
          catalogs  \* catalog.json files, by run directory

store == <<dirs, folders, bodies, metas, runs, catalogs>>
vars == <<proc, store>>

NoBatch == [primary |-> [ok |-> FALSE]]

Init == /\ proc = [r \in Run |-> [pc |-> "idle", n |-> 1, owns |-> FALSE, batch |-> NoBatch,
                                  item |-> 1, suffix |-> 1, present |-> 0, failed |-> 0, code |-> 0]]
        /\ dirs = {} /\ folders = {}
        /\ bodies = <<>> /\ metas = <<>>
        /\ runs = <<>> /\ catalogs = <<>>

\* A file is written, over one of that name if there is one.
Written(file, content, f) == [g \in DOMAIN f \cup {file} |-> IF g = file THEN content ELSE f[g]]
----
(* html_catalog.cpp *)

\* fetched_abs: where what was fetched ended, not what was asked for.
FetchedAbs(batch) ==
  {batch.primary.final} \cup
  ({batch.also[k].final : k \in {j \in DOMAIN batch.also : batch.also[j].ok}} \ {NoUrl})

\* add_url_entry keeps what can be an entry, is not in fetched_abs and has no
\* entry yet from the same kind of element.  Inline scripts have no URL.
Kept(hints, batch) ==
  {k \in DOMAIN hints :
     \/ hints[k].source = "inline_script"
     \/ /\ hints[k].usable /\ hints[k].url \notin FetchedAbs(batch)
        /\ \A j \in 1 .. k - 1 :
             hints[j].usable => hints[j].source # hints[k].source \/ hints[j].url # hints[k].url}

\* Faulty variant: the numbers begin again.
StartAgain(batch) == 1

\* catalog_start: after the greatest request_seq.
CatalogStart(batch) ==
  1 + Max({batch.primary.seq} \cup {batch.also[k].seq : k \in DOMAIN batch.also})

Present(batch) ==
  LET hints == Hints[batch.primary.final]
      kept == Kept(hints, batch)
      Nth(n) == CHOOSE k \in kept : Cardinality({j \in kept : j <= k}) = n
  IN  [n \in 1 .. Cardinality(kept) |->
         [part |-> "present", source |-> hints[Nth(n)].source, url |-> hints[Nth(n)].url,
          seq |-> CatalogStart(batch) + n - 1, ok |-> TRUE]]

Fetched(batch) ==
  LET Item(res) == [part |-> "fetched", source |-> res.source, url |-> res.final, seq |-> res.seq,
                    ok |-> res.ok]
  IN  <<Item(batch.primary)>> \o [k \in DOMAIN batch.also |-> Item(batch.also[k])]

\* All that is written, in order.
Items(batch) == Fetched(batch) \o Present(batch)
----
(* allocate_run_dir *)

Dir(r) == [second |-> Job[r].second, label |-> Job[r].label, n |-> proc[r].n]

Exit(r, code) == proc' = [proc EXCEPT ![r].pc = "exited", ![r].code = code]

Begin(r) == /\ proc[r].pc = "idle"
            /\ Concurrent \/ \A s \in Run : proc[s].pc \in {"idle", "exited"}
            /\ proc' = [proc EXCEPT ![r].pc = "probe"]
            /\ UNCHANGED store

\* Faulty variant: the first name is taken.
ProbeNothing(r) == /\ proc[r].pc = "probe"
                   /\ proc' = [proc EXCEPT ![r].pc = "create"]
                   /\ UNCHANGED store

\* The next name is tried if this one exists.
Probe(r) == /\ proc[r].pc = "probe"
            /\ proc' = IF Dir(r) \in dirs THEN [proc EXCEPT ![r].n = @ + 1]
                       ELSE [proc EXCEPT ![r].pc = "create"]
            /\ UNCHANGED store

\* create_directories does not mind that it exists by now.
Create(r) == /\ proc[r].pc = "create"
             /\ dirs' = dirs \cup {Dir(r)}
             /\ proc' = [proc EXCEPT ![r].pc = "fetch", ![r].owns = TRUE]
             /\ UNCHANGED <<folders, bodies, metas, runs, catalogs>>

\* The run directory of a failed fetch stays, and stays empty.
FetchMulti(r) == /\ proc[r].pc = "fetch"
                 /\ \E b \in Batches :
                      IF b.primary.ok THEN proc' = [proc EXCEPT ![r].pc = "pick", ![r].batch = b]
                      ELSE Exit(r, 1)
                 /\ UNCHANGED store
----
(* write_capture_request and write_present_entry *)

Item(r) == Items(proc[r].batch)[proc[r].item]

Folder(r, suffix) == [dir |-> Dir(r), part |-> Item(r).part, source |-> Item(r).source,
                      seq |-> Item(r).seq, suffix |-> suffix]

AllWritten(r) == proc[r].item > Len(Items(proc[r].batch))

\* Faulty variant: the name is not looked up.
TakeFirst(r) == 1

\* unique_request_dir: the one after the last is not tested.
FreeSuffix(r) == CHOOSE n \in 1 .. MaxSuffix + 1 :
  /\ n <= MaxSuffix => Folder(r, n) \notin folders
  /\ \A m \in 1 .. n - 1 : Folder(r, m) \in folders

Pick(r) == /\ proc[r].pc = "pick" /\ ~AllWritten(r)
           /\ proc' = [proc EXCEPT ![r].pc = "body", ![r].suffix = FreeSuffix(r)]
           /\ UNCHANGED store

Body(r, whole) == [run |-> r, item |-> Item(r), whole |-> whole]

\* write_body_file returns the state of the stream before it is closed: a body
\* that was still buffered may be lost then, and is taken for written.
WriteBody(r) ==
  /\ proc[r].pc = "body"
  /\ folders' = folders \cup {Folder(r, proc[r].suffix)}
  /\ \E whole \in BOOLEAN :
       /\ whole \/ proc[r].failed < MaxFailures
       /\ bodies' = Written(Folder(r, proc[r].suffix), Body(r, whole), bodies)
       /\ proc' = [proc EXCEPT ![r].pc = "meta",
                               ![r].present = IF Item(r).part = "present" THEN @ + 1 ELSE @,
                               ![r].failed = IF whole THEN @ ELSE @ + 1]
  /\ UNCHANGED <<dirs, metas, runs, catalogs>>

\* The folder is made; its body file is not, or holds a part of the body.
CutBody(r) ==
  /\ folders' = folders \cup {Folder(r, proc[r].suffix)}
  /\ \/ UNCHANGED bodies
     \/ bodies' = Written(Folder(r, proc[r].suffix), Body(r, FALSE), bodies)
  /\ UNCHANGED <<dirs, metas, runs, catalogs>>

\* Faulty variant: whether the body was written is not looked at.
BodyUnchecked(r) == /\ proc[r].pc = "body" /\ proc[r].failed < MaxFailures
                    /\ CutBody(r)
                    /\ proc' = [proc EXCEPT ![r].pc = "meta", ![r].failed = @ + 1]

\* The file does not open, or the body is larger than the buffer and its write
\* fails.  Only the page's body is worth an error.
BodyFails(r) == /\ proc[r].pc = "body" /\ proc[r].failed < MaxFailures
                /\ CutBody(r)
                /\ IF proc[r].item = 1 THEN Exit(r, 1)
                   ELSE proc' = [proc EXCEPT ![r].pc = "pick", ![r].item = @ + 1, ![r].failed = @ + 1]

WriteMeta(r) == /\ proc[r].pc = "meta"
                /\ metas' = Written(Folder(r, proc[r].suffix), Item(r), metas)
                /\ proc' = [proc EXCEPT ![r].pc = "pick", ![r].item = @ + 1]
                /\ UNCHANGED <<dirs, folders, bodies, runs, catalogs>>

\* That a meta.json was not written is not noticed.
MetaFails(r) == /\ proc[r].pc = "meta" /\ proc[r].failed < MaxFailures
                /\ proc' = [proc EXCEPT ![r].pc = "pick", ![r].item = @ + 1, ![r].failed = @ + 1]
                /\ UNCHANGED store
----
(* run.json and catalog.json *)

WriteRunJson(r) ==
  /\ proc[r].pc = "pick" /\ AllWritten(r)
  /\ \/ runs' = Written(Dir(r), [fetched |-> 1 + Len(proc[r].batch.also),
                                 present |-> proc[r].present], runs)
     \/ UNCHANGED runs
  /\ proc' = [proc EXCEPT ![r].pc = "catalog"]
  /\ UNCHANGED <<dirs, folders, bodies, metas, catalogs>>

\* Faulty variant: only what was fetched is read.
ReadFetched(dir) == Restrict(metas, {f \in DOMAIN metas : f.dir = dir /\ f.part = "fetched"})

\* Every meta.json under the run directory, whoever wrote it.
ReadMetas(dir) == Restrict(metas, {f \in DOMAIN metas : f.dir = dir})

WriteCatalog(r) == /\ proc[r].pc = "catalog"
                   /\ \/ catalogs' = Written(Dir(r), ReadMetas(Dir(r)), catalogs)
                      \/ UNCHANGED catalogs
                   /\ Exit(r, 0)
                   /\ UNCHANGED <<dirs, folders, bodies, metas, runs>>

\* The process is ended, or a create_directories throws.
Die(r) == /\ proc[r].pc \notin {"idle", "exited"}
          /\ Exit(r, 134)
          /\ UNCHANGED store \/ (proc[r].pc = "body" /\ CutBody(r))

Next == \E r \in Run :
  \/ Begin(r) \/ Probe(r) \/ Create(r) \/ FetchMulti(r)
  \/ Pick(r) \/ WriteBody(r) \/ BodyFails(r) \/ WriteMeta(r) \/ MetaFails(r)
  \/ WriteRunJson(r) \/ WriteCatalog(r) \/ Die(r)

Spec == Init /\ [][Next]_vars
----
(* Properties *)

ItemType == [part : {"fetched", "present"}, source : STRING, url : URL, seq : Nat,
             ok : BOOLEAN]

FolderType == [dir : [second : Nat, label : STRING, n : Nat], part : {"fetched", "present"},
               source : STRING, seq : Nat, suffix : 1 .. MaxSuffix + 1]

\* Files lie in folders, folders in run directories, and each holds what belongs
\* there (main.cpp:331-366, 390-427).
TypeOK ==
  /\ DOMAIN bodies \subseteq folders /\ DOMAIN metas \subseteq DOMAIN bodies
  /\ \A f \in folders : f \in FolderType /\ f.dir \in dirs
  /\ \A f \in DOMAIN metas : metas[f] \in ItemType
  /\ \A d \in DOMAIN runs : d \in dirs /\ runs[d] \in [fetched : Nat, present : Nat]
  /\ DOMAIN catalogs \subseteq dirs

\* "each run creates <dir>/<timestamp>_<host>/requests/..." (main.cpp:45-46): two
\* runs never write into one directory.
OwnRunDir == \A r, s \in Run : r # s /\ proc[r].owns /\ proc[s].owns => Dir(r) # Dir(s)

\* Nothing a run has written is lost to a later write, of this run or another
\* one, even where one page's numbers come twice (main.cpp:241-252, 399-401).
NothingOverwritten ==
  [][/\ \A f \in DOMAIN bodies : f \in DOMAIN bodies' /\ bodies'[f] = bodies[f]
     /\ \A f \in DOMAIN metas : f \in DOMAIN metas' /\ metas'[f] = metas[f]
     /\ \A d \in DOMAIN runs : d \in DOMAIN runs' /\ runs'[d] = runs[d]]_vars

\* A catalogue lists what lies in its run directory, and when no write failed it
\* has as many entries as run.json counts (main.cpp:429-486, 913-932).
CatalogComplete ==
  \A r \in Run : proc[r].pc = "exited" /\ proc[r].code = 0 /\ Dir(r) \in DOMAIN catalogs =>
    /\ catalogs[Dir(r)] = Restrict(metas, {f \in DOMAIN metas : f.dir = Dir(r)})
    /\ proc[r].failed = 0 /\ Dir(r) \in DOMAIN runs =>
         Cardinality(DOMAIN catalogs[Dir(r)]) = runs[Dir(r)].fetched + runs[Dir(r)].present

\* A catalogue's present entries are numbered on from its requests, no number
\* twice, and none of them is where a successful fetch ended (main.cpp:914-926,
\* html_catalog.cpp:112-128).
PresentApart ==
  \A d \in DOMAIN catalogs : \A f, g \in DOMAIN catalogs[d] :
    f.part = "present" /\ f # g =>
      /\ g.part = "fetched" => g.seq < f.seq
      /\ g.part = "present" => g.seq # f.seq
      /\ g.part = "fetched" /\ metas[g].ok => metas[g].url # metas[f].url \/ metas[f].url = NoUrl

\* The exit code tells what there is (main.cpp:124-129, 858-862, 881-885, 957).
\* After 0 the page's body file is there, with all of the page unless some write
\* failed: main does not see one that fails as the file is closed.  After 1
\* there is no whole body, and no meta.json, run.json or catalogue.
CodeTellsStore ==
  \A r \in Run : proc[r].pc = "exited" =>
    /\ proc[r].code = 0 =>
         \E f \in DOMAIN bodies : /\ bodies[f].run = r /\ f.dir = Dir(r) /\ f.seq = 0
                                  /\ proc[r].failed = 0 => bodies[f].whole
    /\ proc[r].code = 1 =>
         /\ \A f \in DOMAIN bodies : f.dir = Dir(r) => ~bodies[f].whole
         /\ \A f \in DOMAIN metas : f.dir # Dir(r)
         /\ Dir(r) \notin DOMAIN runs \cup DOMAIN catalogs

(* What the code's own comment says, and the code does not do *)

\* The URLs a batch has asked for with success.
AskedAbs(batch) ==
  {batch.primary.asked} \cup {batch.also[k].asked : k \in {j \in DOMAIN batch.also : batch.also[j].ok}}

\* "every non-CSS URL [...] that was not already fetched (fetched_abs holds
\* absolute URLs of primary + subresource GETs)" (html_catalog.h:17-18): a run's
\* catalogue lists no URL as present that the run has asked for with success.
PresentIsLeftOver ==
  \A r \in Run : proc[r].pc = "exited" /\ proc[r].code = 0 /\ Dir(r) \in DOMAIN catalogs =>
    \A f \in DOMAIN catalogs[Dir(r)] :
      f.part = "present" => metas[f].url \notin AskedAbs(proc[r].batch) \/ metas[f].url = NoUrl
====
