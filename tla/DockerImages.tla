---------------------------- MODULE DockerImages ----------------------------
(***************************************************************************)
(* The image modules of community.docker: docker_image, docker_image_pull, *)
(* _push, _tag, _remove, _load, _export and _build.                        *)
(*                                                                         *)
(* w.local and w.remote say which image a name stands for on the host and  *)
(* in the registry (0: none): "n" is the name of the task, "r" and "s" are *)
(* repositories it is tagged as.  The images of one release for different  *)
(* platforms are 10 apart.  w.file is the archive at the path of the task, *)
(* w.tar the one it loads, w.src the image its sources build, and w.used   *)
(* says that a container uses the image.                                   *)
(***************************************************************************)
EXTENDS TaskRuns

ImageModules == {"docker_image", "docker_image_pull", "docker_image_push", "docker_image_tag", "docker_image_remove",
                 "docker_image_load", "docker_image_export", "docker_image_build"}

\* The parameters of each module.  The name may be an id for all but the
\* modules that pull and build.
ImageParams ==
    [state : {"present", "absent"}, source : {"pull", "build", "load", "local"}, plat : Nat, force : BOOLEAN,
     archive : BOOLEAN, repo : BOOLEAN, push : BOOLEAN, retag : BOOLEAN]
PullParams == [mode : {"always", "not_present"}, plat : Nat, source : {"pull"}]
BuildParams == [mode : {"always", "never"}, source : {"build"}]
LoadParams == [source : {"load"}]
RemoveParams == [force : BOOLEAN]
PushParams == {None}
TagParams == [keep : BOOLEAN]
ExportParams == [force : BOOLEAN]
ImageParamsOf(mod) ==
    CASE mod = "docker_image" -> ImageParams [] mod = "docker_image_pull" -> PullParams
      [] mod = "docker_image_build" -> BuildParams [] mod = "docker_image_load" -> LoadParams
      [] mod = "docker_image_remove" -> RemoveParams [] mod = "docker_image_push" -> PushParams
      [] mod = "docker_image_tag" -> TagParams [] mod = "docker_image_export" -> ExportParams

AtImage(pc) == task.mod \in ImageModules /\ task.pc = pc

\* find_image, and the platform of an image.
Found(w, name) == w.local[name]
PlatformOf(id) == id \div 10

\* pull_image: the name stands for what the registry has; 0 is an error.
Pulled(w, plat) == IF w.remote["n"] = 0 THEN 0 ELSE w.remote["n"] + 10 * plat

\* The archive that holds the image id under the name of the task.
Archive(id) == [id |-> id, name |-> "n"]

\* present and absent, push, tag_images, run and build_image: the image is
\* looked up first.  docker_image goes on with Source, Export, Push and Tag.
AfterImage(t, id, pc) == [t EXCEPT !.loc = [img |-> id, todo |-> <<"r", "s">>], !.pc = pc]

FindForImage ==
    /\ At("docker_image", "start")
    /\ LET p == task.p
           id == Found(world, "n")
           need == id = 0 \/ p.force
           t == AfterImage(task, id, "archive")
       IN  Look(IF p.state = "absent"
                THEN IF id = 0 THEN Exit(t) ELSE IF Check(t) THEN Exit(Changed(t)) ELSE Goto(Changed(t), "delete")
                ELSE IF ~need THEN t
                ELSE IF p.source = "local" THEN IF id = 0 \/ ~Check(t) THEN Fail(t) ELSE t
                ELSE IF p.source = "load" /\ world.tar = None THEN Fail(t)
                ELSE IF Check(t) THEN Changed(t) ELSE Goto(Changed(t), "source"))

FindForOthers ==
    /\ task.mod \in ImageModules \ {"docker_image"} /\ task.pc = "start"
    /\ LET p == task.p
           id == Found(world, "n")
           t == AfterImage(task, id, "start")
           go(pc) == IF Check(t) THEN Exit(Changed(t)) ELSE Goto(Changed(t), pc)
       IN  Look(CASE task.mod = "docker_image_pull" ->
                       IF id # 0 /\ p.mode = "not_present" /\ p.plat \in {0, PlatformOf(id)} THEN Exit(t) ELSE go("source")
                  [] task.mod = "docker_image_build" ->
                       IF id # 0 /\ p.mode = "never" THEN Exit(t) ELSE go("source")
                  [] task.mod = "docker_image_load" -> IF Check(t) THEN Skip(t) ELSE Goto(Changed(t), "source")
                  [] task.mod = "docker_image_remove" -> IF id = 0 THEN Exit(t) ELSE go("delete")
                  [] task.mod = "docker_image_push" ->
                       IF Check(t) THEN Skip(t) ELSE IF id = 0 THEN Fail(t) ELSE Goto(t, "push")
                  [] task.mod = "docker_image_tag" -> IF id = 0 THEN Fail(t) ELSE Goto(t, "retag")
                  [] task.mod = "docker_image_export" -> IF id = 0 THEN Fail(t) ELSE Goto(t, "export"))

\* pull_image, build_image, load_image and load_images.  An archive with
\* another image fails docker_image, but only after it was loaded.
Source ==
    /\ AtImage("source")
    /\ LET p == task.p
           old == Found(world, "n")
           new == CASE p.source = "pull" -> Pulled(world, p.plat)
                    [] p.source = "build" -> world.src
                    [] p.source = "load" -> IF world.tar = None THEN 0 ELSE world.tar.id
           name == IF p.source = "load" /\ new # 0 THEN world.tar.name ELSE "n"
           same == IF task.mod = "docker_image" THEN task.loc.img = new ELSE old = new
           t == [task EXCEPT !.changed = ~same \/ task.mod \in {"docker_image_load", "docker_image_build"}]
       IN  IF new = 0 THEN Look(Fail(task))
           ELSE Do(IF task.mod # "docker_image" THEN Exit(t) ELSE IF name # "n" THEN Fail(t) ELSE Goto(t, "archive"),
                   [world EXCEPT !.local[name] = new])

\* absent: an image that is gone meanwhile is no error.
Delete ==
    /\ AtImage("delete")
    /\ IF Found(world, "n") # 0 /\ world.used /\ ~task.p.force THEN Look(Fail(task))
       ELSE Do(Exit(task), [world EXCEPT !.local["n"] = 0])

\* archive_image: whether the archive is written again becomes the result.
ArchiveImage ==
    /\ At("docker_image", "archive")
    /\ LET id == Found(world, "n")
           write == world.file # Archive(id)
           next == IF task.p.repo THEN "tag" ELSE IF task.p.push THEN "push" ELSE "end"
           t == [Goto(task, next) EXCEPT !.changed = IF task.p.archive /\ id # 0 THEN write ELSE @]
       IN  IF task.p.archive /\ id # 0 /\ ~Check(task) THEN Do(t, [world EXCEPT !.file = Archive(id)]) ELSE Look(t)

\* tag_image.
TagImage ==
    /\ At("docker_image", "tag")
    /\ LET id == Found(world, "n")
           old == Found(world, "r")
           next == Goto(task, IF task.p.push THEN "push" ELSE "end")
       IN  IF old # 0 /\ ~task.p.retag THEN Look(next)
           ELSE IF Check(task) THEN Look(Changed(next))
           ELSE IF id = 0 THEN Look(Fail(task))
           ELSE Do([next EXCEPT !.changed = old # id], [world EXCEPT !.local["r"] = id])

\* push_image and push: the result tells whether a layer was pushed.
PushImage ==
    /\ AtImage("push")
    /\ LET name == IF task.mod = "docker_image" /\ task.p.repo THEN "r" ELSE "n"
           id == Found(world, name)
       IN  IF Check(task) THEN Look(Exit(Changed(task)))
           ELSE IF id = 0 THEN Look(Fail(task))
           ELSE Do(Exit([task EXCEPT !.changed = world.remote[name] # id]), [world EXCEPT !.remote[name] = id])

EndImage == At("docker_image", "end") /\ Look(Exit(task))

\* ImageTagger.tag_image, for one repository after the other, by the id found.
RetagImage ==
    /\ At("docker_image_tag", "retag")
    /\ LET id == task.loc.img
           name == Head(task.loc.todo)
           old == Found(world, name)
           rest == Tail(task.loc.todo)
           t == IF rest = << >> THEN task ELSE [task EXCEPT !.loc.todo = rest]
           next(u) == IF rest = << >> THEN Exit(u) ELSE u
       IN  IF old = id \/ (old # 0 /\ task.p.keep) THEN Look(next(t))
           ELSE IF Check(task) THEN Look(next(Changed(t)))
           ELSE IF \A n \in DOMAIN world.local : world.local[n] # id THEN Look(Fail(task))
           ELSE Do(next(Changed(t)), [world EXCEPT !.local[name] = id])

\* get_export_reason and export_images, of an image asked for by its name: it
\* has its old id in the decision and its present one in the archive.
ExportImage ==
    /\ At("docker_image_export", "export")
    /\ LET id == Found(world, "n")
           why == task.p.force \/ world.file # Archive(task.loc.img)
       IN  IF ~why THEN Look(Exit(task))
           ELSE IF Check(task) THEN Look(Exit(Changed(task)))
           ELSE IF id = 0 THEN Look(Fail(task))
           ELSE Do(Exit(Changed(task)), [world EXCEPT !.file = Archive(id)])

\* The registry gets a new release, or somebody removes or pulls the image.
OthersAlterImages ==
    /\ task.mod \in ImageModules
    /\ \/ OthersMake([world EXCEPT !.remote["n"] = 3])
       \/ OthersMake([world EXCEPT !.local["n"] = 0])
       \/ OthersMake([world EXCEPT !.local["n"] = 2])

ImagesNext ==
    \/ FindForImage \/ FindForOthers \/ Source \/ Delete \/ ArchiveImage \/ TagImage \/ PushImage \/ EndImage
    \/ RetagImage \/ ExportImage \/ OthersAlterImages

\* The goal of a task: an image, an archive or tags that are as asked for.
ImagesGoal(mod, p, w) ==
    CASE mod = "docker_image" ->
           IF p.state = "absent" THEN w.local["n"] = 0
           ELSE /\ w.local["n"] # 0
                /\ p.archive => w.file = Archive(w.local["n"])
                /\ p.repo => w.local["r"] # 0 /\ (p.retag => w.local["r"] = w.local["n"])
                /\ p.push => IF p.repo THEN w.remote["r"] = w.local["r"] ELSE w.remote["n"] = w.local["n"]
      [] mod = "docker_image_pull" -> w.local["n"] # 0 /\ (p.mode = "always" => w.local["n"] = Pulled(w, p.plat))
      [] mod = "docker_image_build" -> w.local["n"] # 0 /\ (p.mode = "always" => w.local["n"] = w.src)
      [] mod = "docker_image_load" -> w.local[w.tar.name] = w.tar.id
      [] mod = "docker_image_remove" -> w.local["n"] = 0
      [] mod = "docker_image_push" -> w.remote["n"] = w.local["n"]
      [] mod = "docker_image_tag" -> \A n \in {"r", "s"} : w.local[n] # 0 /\ (~p.keep => w.local[n] = w.local["n"])
      [] mod = "docker_image_export" -> w.file = Archive(w.local["n"])

\* Modules and parameters that always report a change.
ImagesForced(mod, p) ==
    \/ mod = "docker_image_load"
    \/ mod = "docker_image_build" /\ p.mode = "always"
    \/ mod = "docker_image_export" /\ p.force

\* A later step of docker_image overwrites what an earlier one had reported.
ImagesOverwrite(mod, p) == mod = "docker_image" /\ p.state = "present" /\ (p.archive \/ p.push \/ p.repo)
\* A forced pull is compared with the image that was found before it.
ImagesStale(mod, p) == mod = "docker_image" /\ p.force
\* In check mode a pull or a build that would be made counts as a change.
ImagesGuess(mod, p) ==
    \/ mod = "docker_image_pull" /\ p.mode = "always"
    \/ mod = "docker_image" /\ p.force
=============================================================================
