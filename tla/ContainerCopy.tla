--------------------------- MODULE ContainerCopy ---------------------------
(***************************************************************************)
(* docker_container_copy_into: a file or a text is put into a container,   *)
(* unless it is there already.                                             *)
(*                                                                         *)
(* w.fs gives the node at each path of the container, w.local the file of  *)
(* the task on this host; w.ids are the user and group of the container's  *)
(* processes, w.paused says that it runs none.                             *)
(***************************************************************************)
EXTENDS TaskRuns

Paths == {"x", "y"}
NoFile == [kind |-> "none"]
File(size, data, mode, ids) == [kind |-> "file", size |-> size, data |-> data, mode |-> mode, ids |-> ids]
Link(to) == [kind |-> "link", to |-> to]

\* The parameters, for a file and for a text; -1 is a mode or an owner that is
\* not given.
CopyParams ==
    [source : {"file"}, follow : BOOLEAN, lfollow : BOOLEAN, ids : Int, mode : Int, force : {"none", "yes", "no"}]
    \cup [source : {"content"}, follow : BOOLEAN, ids : Int, mode : Nat, force : {"none", "yes", "no"}, size : Nat, data : Nat]

AtCopy(pc) == At("docker_container_copy_into", pc)

\* os.stat or os.lstat of the local file.
LocalStat(p, w) == IF w.local.kind = "link" /\ p.lfollow THEN w.local.file ELSE w.local

\* The file or the text of the task as it is now.
Given(p, w) ==
    IF p.source = "content" THEN [kind |-> "file", size |-> p.size, data |-> p.data, mode |-> p.mode] ELSE LocalStat(p, w)

\* main: determine_user_group runs a command in the container if need be.
DetermineUser ==
    /\ AtCopy("start")
    /\ LET p == task.p IN
         Look(IF p.ids = -1 /\ world.paused THEN Fail(task)
              ELSE Remember(task, [ids |-> IF p.ids = -1 THEN world.ids ELSE p.ids], "local"))

\* The start of is_file_idempotent and of is_content_idempotent: what it knows
\* of the file, and its mode unless the task has one.
StatLocal ==
    /\ AtCopy("local")
    /\ LET p == task.p
           src == Given(p, world)
           t == [task EXCEPT !.loc = [ids |-> @.ids, src |-> src, mode |-> IF p.mode # -1 THEN p.mode ELSE src.mode,
                                      path |-> "x", seen |-> {}, size |-> 0]]
       IN  Look(IF src.kind \notin {"file", "link"} THEN Fail(task)
                ELSE IF p.force = "yes" /\ ~p.follow THEN Unless(Changed(t), "header", Exit(Changed(t)))
                ELSE Goto(t, "stat"))

\* Whether the node can be the same for all the stat of it tells.
SameByStat(l, node) ==
    IF l.src.kind = "link" THEN node.kind = "link" /\ node.to = l.src.to
    ELSE node.kind = "file" /\ node.size = l.src.size /\ node.mode = l.mode

\* stat_file: one request per link it follows, and the decisions taken from
\* what it finds.
StatFile ==
    /\ AtCopy("stat")
    /\ LET p == task.p
           l == task.loc
           node == world.fs[l.path]
           write == Unless(Changed(task), "header", Exit(Changed(task)))
       IN  Look(IF l.path \in l.seen THEN Fail(task)
                ELSE IF node.kind = "link" /\ p.follow
                     THEN [task EXCEPT !.loc.path = node.to, !.loc.seen = @ \cup {l.path}]
                ELSE IF node = NoFile \/ p.force = "yes" THEN write
                ELSE IF p.force = "no" THEN Exit(task)
                ELSE IF ~SameByStat(l, node) THEN write
                ELSE IF l.src.kind = "link" THEN Exit(task)
                ELSE [task EXCEPT !.loc.seen = {}, !.pc = "fetch"])

\* fetch_file_ex and process_regular: owner and content are compared too.
FetchFile ==
    /\ AtCopy("fetch")
    /\ LET p == task.p
           l == task.loc
           node == world.fs[l.path]
           src == Given(p, world)
           same == node.kind = "file" /\ SameByStat(l, node) /\ node.ids = l.ids
       IN  Look(IF l.path \in l.seen THEN Fail(task)
                ELSE IF node.kind = "link" /\ p.follow
                     THEN [task EXCEPT !.loc.path = node.to, !.loc.seen = @ \cup {l.path}]
                ELSE IF same /\ src.kind # "file" THEN Fail(task)
                ELSE IF same /\ node.data = src.data /\ node.size = src.size THEN Exit(task)
                ELSE Unless(Changed(task), "header", Exit(Changed(task))))

\* put_file looks at the file again; the header of the archive has its size.
WriteHeader ==
    /\ AtCopy("header")
    /\ LET src == Given(task.p, world) IN
         Look(IF src.kind \notin {"file", "link"} THEN Fail(task)
              ELSE [task EXCEPT !.loc.src = src, !.loc.size = IF src.kind = "file" THEN src.size ELSE 0, !.pc = "put"])

\* _regular_file_tar_generator fills a file that has become shorter with zeros
\* and cuts one that has become longer.
PutArchive ==
    /\ AtCopy("put")
    /\ LET src == Given(task.p, world)
           l == task.loc
           data == IF src.size = l.size THEN src.data ELSE -1
           node == IF l.src.kind = "link" THEN Link(l.src.to) ELSE File(l.size, data, l.mode, l.ids)
       IN  IF src.kind = "none" THEN Look(Fail(task)) ELSE Do(Exit(task), [world EXCEPT !.fs[l.path] = node])

\* The local file grows or disappears, or somebody changes the container.
OthersAlterFiles ==
    /\ task.mod = "docker_container_copy_into" /\ task.pc # "over"
    /\ \/ OthersMake([world EXCEPT !.local = File(3, 3, 1, 0)])
       \/ OthersMake([world EXCEPT !.local = NoFile])
       \/ OthersMake([world EXCEPT !.fs["x"] = Link("y")])
       \/ OthersMake([world EXCEPT !.fs["x"] = NoFile, !.fs["y"] = Link("x")])

CopyNext == DetermineUser \/ StatLocal \/ StatFile \/ FetchFile \/ WriteHeader \/ PutArchive \/ OthersAlterFiles

-----------------------------------------------------------------------------
\* A link that is copied while links of the container are followed is followed
\* itself the next time.
LinkFollowed(p, w) == p.follow /\ Given(p, w).kind = "link"

\* The path a task ends up with, and what it shall find there.  A link of a
\* container that is not followed is replaced.
CopyPath(p, w) == IF p.follow /\ w.fs["x"].kind = "link" THEN w.fs["x"].to ELSE "x"
CopyGoal(p, w) ==
    LET node == w.fs[CopyPath(p, w)]
        src == Given(p, w)
    IN  CASE LinkFollowed(p, w) -> TRUE
          [] ~LinkFollowed(p, w) /\ p.force = "no" -> node # NoFile
          [] ~LinkFollowed(p, w) /\ p.force # "no" /\ src.kind = "link" -> node = Link(src.to)
          [] ~LinkFollowed(p, w) /\ p.force # "no" /\ src.kind = "file" ->
               node = File(src.size, src.data, IF p.mode # -1 THEN p.mode ELSE src.mode, IF p.ids = -1 THEN w.ids ELSE p.ids)
CopyForced(p, w) == p.force = "yes" \/ LinkFollowed(p, w)
=============================================================================
