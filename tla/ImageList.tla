------------------------------ MODULE ImageList ------------------------------
(***************************************************************************)
(* The process that copies the list of images of the Docker registry into  *)
(* the ImageList object (cmd/crownlabs-image-list). An update asks for the *)
(* catalog, then for the tags of each repository, then replaces or creates *)
(* the object. The tags are asked for while the object is being prepared,  *)
(* out of reach of the handler of upstream errors: a request without an    *)
(* answer is left out by grequests, an answer that is not JSON ends the    *)
(* process. MaxOps caps the number of edits people make and MaxFaults that *)
(* of the calls that fail.                                                 *)
(***************************************************************************)
EXTENDS Naturals

CONSTANTS Repos, Tags, MaxOps, MaxFaults, NoList

VARIABLES
  registry,      \* the tags of each repository; one without tags is still in the catalog
  saved,         \* the ImageList object: the versions of each image, none if it is not listed
  proc, faults, ops

vars == <<registry, saved, proc, faults, ops>>

Steps == {"idle", "catalog", "tags", "version", "store", "down"}

(* The variables have their types; in particular no image is ever saved    *)
(* with the tag latest (__process_image_list). proc.got are the answers so *)
(* far, proc.version tells whether the object was found and proc.fresh     *)
(* whether it is still the version that was found.                         *)
TypeOK ==
  /\ registry \in [Repos -> SUBSET Tags]
  /\ saved \in [Repos -> SUBSET (Tags \ {"latest"})] \cup {NoList}
  /\ proc \in [pc : Steps, todo : SUBSET Repos, got : [Repos -> SUBSET Tags],
               version : BOOLEAN, fresh : BOOLEAN]
  /\ faults \in 0 .. MaxFaults /\ ops \in 0 .. MaxOps

Ended(pc) == [pc |-> pc, todo |-> {}, got |-> [r \in Repos |-> {}], version |-> FALSE,
              fresh |-> FALSE]

Init ==
  /\ registry \in [Repos -> SUBSET Tags] /\ saved = NoList /\ proc = Ended("idle")
  /\ faults = MaxFaults /\ ops = MaxOps

-----------------------------------------------------------------------------
Edit == ops > 0 /\ ops' = ops - 1 /\ UNCHANGED faults

Push(r) ==
  /\ Edit /\ \E s \in SUBSET Tags : s # registry[r] /\ registry' = [registry EXCEPT ![r] = s]
  /\ UNCHANGED <<saved, proc>>

(* Somebody writes or deletes the object *)
EditList ==
  /\ saved # NoList
  /\ \/ Edit /\ saved' = [r \in Repos |-> {}]
     \/ Edit /\ saved' = NoList
  /\ saved' # saved /\ proc' = [proc EXCEPT !.fresh = FALSE] /\ UNCHANGED registry

-----------------------------------------------------------------------------
Fault == faults > 0 /\ faults' = faults - 1

(* _run_periodically *)
Start == proc.pc = "idle" /\ proc' = Ended("catalog") /\ UNCHANGED <<registry, saved, faults, ops>>

(* The process is started again after it ended with an exception *)
Restart == proc.pc = "down" /\ proc' = Ended("catalog") /\ UNCHANGED <<registry, saved, faults, ops>>

(* An error answered in JSON has no "repositories": an empty catalog. *)
GetCatalog ==
  /\ proc.pc = "catalog"
  /\ LET asked(rs) == [proc EXCEPT !.todo = rs, !.pc = IF rs = {} THEN "version" ELSE "tags"] IN
     \/ proc' = asked(Repos) /\ UNCHANGED faults
     \/ Fault /\ proc' \in {Ended("idle"), asked({})}
  /\ UNCHANGED <<registry, saved, ops>>

(* The answers come in any order *)
GetTags(r) ==
  /\ proc.pc = "tags" /\ r \in proc.todo
  /\ LET rest == proc.todo \ {r}
         done(tags) == [proc EXCEPT !.todo = rest, !.got[r] = tags,
                                    !.pc = IF rest = {} THEN "version" ELSE "tags"]
     IN \/ proc' = done(registry[r]) /\ UNCHANGED faults
        \/ Fault /\ proc' \in {done({}), Ended("down")}
  /\ UNCHANGED <<registry, saved, ops>>

(* variant: no version is ever found *)
GetVersion_none ==
  /\ proc.pc = "version" /\ proc' = [proc EXCEPT !.pc = "store"]
  /\ UNCHANGED <<registry, saved, faults, ops>>

(* Any error counts as an object that does not exist *)
GetVersion ==
  /\ proc.pc = "version"
  /\ LET found(b) == [proc EXCEPT !.pc = "store", !.version = b, !.fresh = b] IN
     \/ proc' = found(saved # NoList) /\ UNCHANGED faults
     \/ Fault /\ proc' \in {found(FALSE), Ended("down")}
  /\ UNCHANGED <<registry, saved, ops>>

(* __process_image_list: an image without another tag is not listed *)
ProcessImageList(images) == [r \in Repos |-> images[r] \ {"latest"}]

(* Replaces the version found, or creates the object; the server refuses   *)
(* when there is another version or the object exists. An error is logged, *)
(* or ends the process if it is not the server's.                          *)
StoreList ==
  /\ proc.pc = "store"
  /\ LET accepted == IF proc.version THEN proc.fresh ELSE saved = NoList
         new == ProcessImageList(proc.got)
     IN \/ accepted /\ saved' = new /\ proc' = Ended("idle") /\ UNCHANGED faults
        \/ ~accepted /\ proc' = Ended("idle") /\ UNCHANGED <<saved, faults>>
        \/ /\ Fault /\ proc' \in {Ended("idle"), Ended("down")}
           /\ UNCHANGED saved \/ (accepted /\ saved' = new)
  /\ UNCHANGED <<registry, ops>>

Update == Start \/ Restart \/ GetCatalog \/ GetVersion \/ StoreList \/ \E r \in Repos : GetTags(r)

Next == (\E r \in Repos : Push(r)) \/ EditList \/ Update

-----------------------------------------------------------------------------
(* Once registry and network are quiet, the object lists exactly the       *)
(* images of the registry with a tag other than latest, whatever failed    *)
(* and whoever wrote or deleted the object before.                         *)
ListConverges ==
  /\ []TypeOK
  /\ <>[](saved = ProcessImageList(registry))
=============================================================================
