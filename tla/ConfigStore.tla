---------------------------- MODULE ConfigStore ----------------------------
(***************************************************************************)
(* The settings of images, containers and PIDs: read from the JSON file    *)
(* (lib/parse_config.c), kept in lists that point at each other            *)
(* (lib/orchdata.c) and looked up, extended and refreshed while processes  *)
(* are detected and docker reports new containers (findPidParameters() in  *)
(* orchestrator/resmgnt.c).                                                *)
(*                                                                         *)
(* A list is a sequence in the order of its pushes, so that an entry is    *)
(* known by its index for good; the code searches from the newest.  The    *)
(* lists of links (conts, pids) are sequences with the newest first.  The  *)
(* attributes and the resources of an entry are shared, copied and freed   *)
(* under the same tests: one block stands for both, with the place it was  *)
(* allocated for and the configured section its values come from.  The     *)
(* match of a signature by strstr() is equality, IDs are unique by their   *)
(* first 12 digits, and the counters nthreads and num_cont, which nobody   *)
(* reads, are left out.                                                    *)
(***************************************************************************)
EXTENDS Integers, FiniteSets, SequencesExt

CONSTANTS Pids,          \* processes
          Containers,    \* container IDs
          ContOf,        \* the container of a process
          NameOf, ImageOf, \* name and image of a container, as docker tells them
          Cmds, CmdOf,   \* command lines; the one a process starts with
          Execs,         \* processes that may replace their program, once each
          NoCmd,         \* a null psig
          Freed,         \* a psig whose memory was freed
          Inputs,        \* configurations to start with
          Modes,         \* detection: "CGRP" or "CMDLINE"
          MaxParams      \* bound: a process is detected while the PID list is shorter

None   == "none"   \* no section in the file; no ID; nothing written yet
Global == [at |-> <<"global", 0>>, val |-> "global"]

(* A file: sections with PIDs, containers, and images that hold containers. *)
Text         == STRING \ {None}
PidSections  == [cmd : Cmds, set : STRING]
ContSections == [id : Text, set : STRING, pids : Seq(PidSections)]
ImgSections  == [id : Text, set : STRING, pids : Seq(PidSections), conts : Seq(ContSections)]
Files        == [images : Seq(ImgSections), conts : Seq(ContSections), pids : Seq(PidSections)]

ASSUME ConfigAssumption == /\ ContOf \in [Pids -> Containers] /\ CmdOf \in [Pids -> Cmds]
                           /\ NoCmd \notin Cmds /\ Freed \notin Cmds /\ NoCmd # Freed
                           /\ MaxParams \in Nat

(* No container has for its name the ID of one. *)
ASSUME NamesAssumption == /\ Containers \subseteq Text
                          /\ NameOf \in [Containers -> Text \ Containers]
                          /\ ImageOf \in [Containers -> Text]

ASSUME FilesAssumption == Inputs \subseteq Files

(* The settings of containers within images, and those of all others. *)
NestedSets(j) == {j.images[x[1]].conts[x[2]].set : x \in
                    UNION {{i} \X DOMAIN j.images[i].conts : i \in DOMAIN j.images}} \ {None}
OuterSets(j)  == {j.images[i].set : i \in DOMAIN j.images} \cup {j.conts[k].set : k \in DOMAIN j.conts}

(* A section is known by the name of its settings. *)
ASSUME SetsAssumption == \A j \in Inputs : NestedSets(j) \cap (OuterSets(j) \cup {"global"}) = {}

VARIABLES json,    \* the configuration the program was started with
          mode,    \* use_cgroup, as it was at the start
          conf,    \* containers_t: images, containers, PIDs
          nodes,   \* the entry of a process in the run-time list, or NoNode
          cmd,     \* the command line of a process
          cpuset,  \* settings last written to the CPU set of a container
          alive    \* FALSE: the program has dereferenced a null pointer

vars == <<json, mode, conf, nodes, cmd, cpuset, alive>>

NoNode == [pid |-> FALSE, psig |-> NoCmd, shared |-> 0, param |-> 0, upd |-> FALSE]

(* push(): the new element becomes the head. *)
Push(x, s) == <<x>> \o s

(* A search: the first element of a list, or the newest of all entries, that
   is one of S; or 0. *)
First(s, S) == LET hits == {i \in DOMAIN s : s[i] \in S} IN IF hits = {} THEN 0 ELSE s[Min(hits)]
Newest(S)   == IF S = {} THEN 0 ELSE Max(S)

(* F of a value that is worked out once, however often F uses it. *)
Once(v, F(_)) == CHOOSE y \in {F(x) : x \in {v}} : TRUE

(* F applied for every element of s, in order, from c on. *)
ForEach(c, s, F(_, _)) ==
  LET after[n \in 0 .. Len(s)] == IF n = 0 THEN c ELSE Once(after[n - 1], LAMBDA d : F(d, s[n]))
  IN after[Len(s)]

(***************************************************************************)
(* Entries and the lists of links to them; the number 0 is a null pointer. *)
(***************************************************************************)
(* Entry x of the list learns of PID n, at the head of its own list. *)
Linked(list, x, n) ==
  [y \in DOMAIN list |-> IF y = x THEN [list[y] EXCEPT !.pids = Push(n, @)] ELSE list[y]]

(* A new entry of the list of PIDs, which container k and image i learn of. *)
NewPid(c, pid, k, i) ==
  LET n == Len(c.pid) + 1
  IN [img |-> Linked(c.img, i, n), cont |-> Linked(c.cont, k, n), pid |-> Append(c.pid, pid)]

NewCont(c, cont) == [c EXCEPT !.cont = Append(@, cont)]
NewImg(c, img)   == [c EXCEPT !.img = Append(@, img)]

(* Container k becomes known to image i. *)
LinkImage(c, k, i) == IF i = 0 THEN c ELSE [c EXCEPT !.img[i].conts = Push(k, @)]

(***************************************************************************)
(* Reading the file.                                                       *)
(***************************************************************************)
(* Settings of its own, or those of the parent (shared). *)
Section(set, at, parent) == IF set = None THEN parent ELSE [at |-> at, val |-> set]

(* A PID of container k, or of image i only (k = 0), or of neither.  An
   image is cast to a container: -i stands for this pointer. *)
AddPid(c, j, k, i) ==
  LET parent == IF k # 0 THEN c.cont[k].blk ELSE IF i # 0 THEN c.img[i].blk ELSE Global
      pid == [sig |-> j.cmd, own |-> j.set # None,
              blk |-> Section(j.set, <<"pid", Len(c.pid) + 1>>, parent),
              cont |-> IF k # 0 THEN k ELSE -i, img |-> i]
  IN NewPid(c, pid, k, IF k # 0 THEN 0 ELSE i)

AddPids(c, js, k, i) == ForEach(c, js, LAMBDA d, j : AddPid(d, j, k, i))

(* A container, with its PIDs; the image does not learn of it. *)
AddCont(c, j, i) ==
  LET n == Len(c.cont) + 1
      parent == IF i # 0 THEN c.img[i].blk ELSE Global
      cont == [id |-> j.id, own |-> j.set # None, ccrt |-> FALSE,
               blk |-> Section(j.set, <<"cont", n>>, parent), pids |-> << >>, img |-> i]
  IN AddPids(NewCont(c, cont), j.pids, n, i)

AddConts(c, js, i) == ForEach(c, js, LAMBDA d, j : AddCont(d, j, i))

AddImg(c, j) ==
  LET n == Len(c.img) + 1
      img == [id |-> j.id, own |-> j.set # None, blk |-> Section(j.set, <<"img", n>>, Global),
              conts |-> << >>, pids |-> << >>]
  IN AddConts(AddPids(NewImg(c, img), j.pids, 0, n), j.conts, n)

AddImgs(c, js) == ForEach(c, js, AddImg)

(* parse_config(): images first, then containers, then PIDs of neither. *)
Parse(j) ==
  LET images == AddImgs([img |-> << >>, cont |-> << >>, pid |-> << >>], j.images)
  IN AddPids(AddConts(images, j.conts, 0), j.pids, 0, 0)

(***************************************************************************)
(* Searching and extending the lists.                                      *)
(***************************************************************************)
(* Mutant of Copied: own settings are not copied. *)
Copied_pointer(from, at) == from.blk

(* copyResourceConfigC(): a copy of own settings, a pointer to shared ones. *)
Copied(from, at) == IF from.own THEN [at |-> at, val |-> from.blk.val] ELSE from.blk

(* Mutant of CopyPid: the copy stays with the container it was configured for. *)
CopyPid_oldcont(c, p, k) ==
  NewPid(c, [c.pid[p] EXCEPT !.blk = Copied(c.pid[p], <<"pid", Len(c.pid) + 1>>)], k, c.pid[p].img)

(* One PID entry of a container configured by name, copied for its ID. *)
CopyPid(c, p, k) ==
  LET old == c.pid[p]
      new == [old EXCEPT !.blk = Copied(old, <<"pid", Len(c.pid) + 1>>), !.cont = k]
  IN NewPid(c, new, k, old.img)

CopyPids(c, ps, k) == ForEach(c, ps, LAMBDA d, p : CopyPid(d, p, k))

(* A PID found at run time follows the new settings of its container. *)
RefreshPid(c, p, k) ==
  LET i == c.cont[k].img
  IN [c EXCEPT !.pid[p].blk = c.cont[k].blk, !.pid[p].img = i, !.img = Linked(@, i, p)]

RefreshPids(c, ps, k) == ForEach(c, ps, LAMBDA d, p : RefreshPid(d, p, k))

(* duplicateOrRefreshContainer(): settings of the container dl, configured
   by name, for the container with this ID; made at run time before, or new. *)
DuplicateOrRefresh(c, id, dl) ==
  LET made == Newest({x \in DOMAIN c.cont : x # dl /\ c.cont[x].ccrt /\ c.cont[x].id = id})
      n == IF made = 0 THEN Len(c.cont) + 1 ELSE made
      from == c.cont[dl]
      entry == [from EXCEPT !.id = id, !.blk = Copied(from, <<"cont", n>>),
                            !.pids = IF made = 0 THEN << >> ELSE c.cont[n].pids]
      put == IF made = 0 THEN NewCont(c, entry) ELSE [c EXCEPT !.cont[n] = entry]
      refreshed == RefreshPids(LinkImage(put, n, from.img), entry.pids, n)
  IN [conf |-> CopyPids(refreshed, from.pids, n), cont |-> n, refresh |-> n]

(* checkContainerMatch(): an entry matches by ID, or by the name in an event. *)
Matching(c, id) == {x \in DOMAIN c.cont : c.cont[x].id \in {id, NameOf[id]}}

(* What becomes of the entry x that a search has found, or 0. *)
Resolve(c, id, x) ==
  IF x # 0 /\ c.cont[x].id # id THEN DuplicateOrRefresh(c, id, x)
  ELSE [conf |-> c, cont |-> x, refresh |-> 0]

(* A container seen for the first time takes the settings of its image. *)
FromImage(c, id, i) ==
  LET entry == [id |-> id, own |-> FALSE, ccrt |-> FALSE, blk |-> c.img[i].blk, pids |-> << >>, img |-> i]
  IN LinkImage(NewCont(c, entry), Len(c.cont) + 1, i)

(* A container made at run time learns its image and takes its settings. *)
ImageUpdate(c, k, i) ==
  [LinkImage(c, k, i) EXCEPT
     !.cont[k] = [@ EXCEPT !.img = i, !.own = c.img[i].own, !.ccrt = FALSE,
                           !.blk = Copied(c.img[i], <<"cont", k>>)]]

(* findPidParameters() for an event of docker: the entry, or 0. *)
FindStarted(c, id) ==
  LET i == Newest({x \in DOMAIN c.img : c.img[x].id = ImageOf[id]})
      Made(r)  == IF r.cont = 0 /\ i # 0
                  THEN [r EXCEPT !.conf = FromImage(@, id, i), !.cont = Len(r.conf.cont) + 1] ELSE r
      Known(r) == IF i # 0 /\ r.cont # 0 /\ r.conf.cont[r.cont].ccrt
                  THEN [r EXCEPT !.conf = ImageUpdate(@, r.cont, i)] ELSE r
      ByImage == Resolve(c, id, IF i = 0 THEN 0 ELSE First(c.img[i].conts, Matching(c, id)))
  IN Once(ByImage, LAMBDA one :
       Once(Resolve(one.conf, id, Newest(Matching(one.conf, id))), LAMBDA all :
         Once(Made(all), LAMBDA r : [Known(r) EXCEPT !.refresh = {one.refresh, @} \ {0}])))

(* The PIDs a process of container k may match, as they are tried. *)
Candidates(c, k) ==
  c.cont[k].pids \o (IF c.cont[k].img = 0 THEN << >> ELSE c.img[c.cont[k].img].pids)

(* The PIDs whose signature the process has.  strstr(): a freed signature
   (in ghosts) may still read like anything. *)
Matches(c, psig, ghosts) ==
  IF psig = NoCmd THEN {} ELSE {p \in DOMAIN c.pid : c.pid[p].sig = psig} \cup ghosts

(* findPidParameters() for a process of a container that is known. *)
FindInCont(c, k, psig, ghosts) ==
  LET hit == First(Candidates(c, k), Matches(c, psig, ghosts))
      entry == [sig |-> NoCmd, own |-> FALSE, blk |-> c.cont[k].blk, cont |-> k, img |-> 0]
  IN IF hit # 0 THEN [conf |-> c, param |-> hit, shared |-> 0]
     ELSE [conf |-> NewPid(c, entry, k, 0), param |-> Len(c.pid) + 1, shared |-> 0]

(* The PID entry of neither image nor container that matches, copied. *)
CopyLoose(c, hit) ==
  [c.pid[hit] EXCEPT !.own = TRUE, !.blk = [at |-> <<"pid", Len(c.pid) + 1>>, val |-> @.val]]

(* An entry to group the processes of an unknown container.  Its list gets
   the entry that was matched, not its copy. *)
Reconstruct(c, id, psig, hit) ==
  LET k == Len(c.cont) + 1
      n == Len(c.pid) + 1
      new == [sig |-> psig, own |-> FALSE, blk |-> Global, cont |-> k, img |-> 0]
      group == [id |-> id, own |-> FALSE, ccrt |-> TRUE, blk |-> Global, img |-> 0,
                pids |-> IF hit = 0 THEN << >> ELSE <<hit>>]
      grouped == NewCont(c, group)
  IN [conf |-> IF hit = 0 THEN NewPid(grouped, new, k, 0)
               ELSE NewPid(grouped, [CopyLoose(c, hit) EXCEPT !.cont = k], 0, 0),
      param |-> n, shared |-> n]

(* findPidParameters() for a process no container entry fits. *)
FindLoose(c, id, psig, ghosts) ==
  LET hit == Newest({p \in Matches(c, psig, ghosts) : c.pid[p].cont = 0 /\ c.pid[p].img = 0})
  IN IF id # None /\ psig # NoCmd THEN Reconstruct(c, id, psig, hit)
     ELSE IF hit = 0 THEN [conf |-> c, param |-> 0, shared |-> 0]
     ELSE [conf |-> NewPid(c, CopyLoose(c, hit), 0, 0), param |-> Len(c.pid) + 1, shared |-> 0]

(* Mutants of FindPid: the known containers are not searched; any container
   of the list will do. *)
FindPid_unknown(c, id, psig, ghosts) == FindLoose(c, id, psig, ghosts)

FindPid_any(c, id, psig, ghosts) ==
  IF c.cont # << >> THEN FindInCont(c, Len(c.cont), psig, ghosts) ELSE FindLoose(c, id, psig, ghosts)

FindPid(c, id, psig, ghosts) ==
  LET k == Newest({x \in DOMAIN c.cont : c.cont[x].id = id})
  IN IF k # 0 THEN FindInCont(c, k, psig, ghosts) ELSE FindLoose(c, id, psig, ghosts)

ContBlock(c, k) == IF k < 0 THEN c.img[-k].blk ELSE c.cont[k].blk

(* The affinity mask of a block.  adaptPrepareSchedule() walks down from the
   images, but no image of the file knows its containers yet (parse_config.c:
   257): these get no mask, and a copy of their settings gets an empty one.
   That the masks it does compute have CPUs is for module Planning. *)
MaskOf(blk) == IF blk.val \notin NestedSets(json) THEN "CPUs"
               ELSE IF blk.at[2] \in DOMAIN Parse(json).cont THEN "null" ELSE "empty"

(***************************************************************************)
(* The run.                                                                *)
(***************************************************************************)
Init ==
  /\ json \in Inputs /\ mode \in Modes
  /\ conf = Parse(json)
  /\ nodes = [p \in Pids |-> NoNode]
  /\ cmd = CmdOf
  /\ cpuset = [k \in Containers |-> None]
  /\ alive = TRUE

(* The ID a scan finds with the process: only CGroups tell it. *)
SeenId(p) == IF mode = "CGRP" THEN ContOf[p] ELSE None

(* The system calls of a write that may fail: moving a task into the CGroup
   of docker, and writing a CPU set or an affinity. *)
Calls == {"move", "set"}

(* setContainerAffinity() for container id with these settings: an empty mask
   leaves the CPU set without CPUs of its own. *)
WriteSet(id, blk) == cpuset' = [cpuset EXCEPT ![id] = IF MaskOf(blk) = "empty" THEN None ELSE blk.val]

(* Mutant of Write: the result of the write is inverted. *)
Write_inverted(p, c, node, failed) ==
  LET k == c.pid[node.param].cont
      done == IF mode = "CGRP" THEN k # 0 /\ MaskOf(ContBlock(c, k)) # "null" /\ "set" \notin failed
              ELSE failed \in {{}, Calls}
  IN /\ nodes' = [nodes EXCEPT ![p] = [node EXCEPT !.upd = @ \/ ~done]]
     /\ IF mode = "CGRP" /\ done THEN WriteSet(ContOf[p], ContBlock(c, k)) ELSE UNCHANGED cpuset

(* setPidResources_u() for a process.  In CGroup mode the CPU set of its
   container is written, unless that is not known to the parameters or has no
   mask.  Otherwise the two results are subtracted, so that one failure is
   reported and two are not (resmgnt.c:156); the affinity is set only if it
   is the same already (resmgnt.c:101), which changes nothing.  The
   attributes are written in either case, they are those of the parameters. *)
Write(p, c, node, failed) ==
  LET k == c.pid[node.param].cont
      done == IF mode = "CGRP" THEN k # 0 /\ MaskOf(ContBlock(c, k)) # "null" /\ "set" \notin failed
              ELSE failed \in {{}, Calls}
  IN /\ nodes' = [nodes EXCEPT ![p] = [node EXCEPT !.upd = @ \/ done]]
     /\ IF mode = "CGRP" /\ done THEN WriteSet(ContOf[p], ContBlock(c, k)) ELSE UNCHANGED cpuset

(* setPidResources() of a process that is new in the list.  Reading its
   command line may fail in CGroup mode. *)
Detect(p) ==
  /\ alive /\ ~nodes[p].pid /\ Len(conf.pid) < MaxParams
  /\ \E psig \in {cmd[p]} \cup (IF mode = "CGRP" THEN {NoCmd} ELSE {}),
        ghosts \in SUBSET {x \in DOMAIN conf.pid : conf.pid[x].sig = Freed}, failed \in SUBSET Calls :
       \E f \in {FindPid(conf, SeenId(p), psig, ghosts)} :
       LET node == [pid |-> TRUE, psig |-> psig, shared |-> f.shared, param |-> f.param, upd |-> FALSE]
       IN /\ conf' = f.conf
          /\ IF f.param # 0 THEN Write(p, f.conf, node, failed)
             ELSE /\ nodes' = [nodes EXCEPT ![p] = [node EXCEPT !.upd = TRUE]]
                  /\ UNCHANGED cpuset
  /\ UNCHANGED <<json, mode, cmd, alive>>

(* updatePidAttr(): the write that failed is tried again. *)
Retry(p, failed) ==
  /\ alive /\ nodes[p].pid /\ nodes[p].param # 0 /\ ~nodes[p].upd
  /\ Write(p, conf, nodes[p], failed)
  /\ UNCHANGED <<json, mode, conf, cmd, alive>>

(* updatePidCmdline(): a command line that changed replaces psig, whose
   memory is freed, also if it belongs to the configuration. *)
UpdateCmdline(p) ==
  /\ alive /\ nodes[p].pid /\ nodes[p].psig # cmd[p]
  /\ nodes' = [nodes EXCEPT ![p].psig = cmd[p], ![p].shared = 0]
  /\ conf' = IF nodes[p].shared = 0 THEN conf ELSE [conf EXCEPT !.pid[nodes[p].shared].sig = Freed]
  /\ UNCHANGED <<json, mode, cmd, cpuset, alive>>

(* updateDocker() with cnt_add.  The parameters made for the event have no
   resources: outside of CGroup mode setPidAffinityNode() reads them. *)
DockerStart(k) ==
  \E f \in {FindStarted(conf, k)} :
     /\ alive
     /\ conf' = f.conf
     /\ nodes' = [p \in Pids |-> IF nodes[p].param # 0 /\ conf'.pid[nodes[p].param].cont \in f.refresh
                                 THEN [nodes[p] EXCEPT !.upd = FALSE] ELSE nodes[p]]
     /\ alive' = (f.cont = 0 \/ mode = "CGRP")
     /\ \/ /\ f.cont # 0 /\ mode = "CGRP" /\ MaskOf(ContBlock(conf', f.cont)) # "null"
           /\ WriteSet(k, ContBlock(conf', f.cont))
        \/ UNCHANGED cpuset
     /\ UNCHANGED <<json, mode, cmd>>

(* Mutant of Vanish: the parameters are taken off before the strings are looked at. *)
Vanish_param(p) ==
  /\ alive /\ nodes[p].pid
  /\ nodes' = [nodes EXCEPT ![p] = [NoNode EXCEPT !.psig = nodes[p].psig, !.shared = nodes[p].shared]]
  /\ UNCHANGED <<json, mode, conf, cmd, cpuset, alive>>

(* node_pop(): only strings no parameter entry points at are freed. *)
Vanish(p) ==
  /\ alive /\ nodes[p].pid
  /\ nodes' = [nodes EXCEPT ![p] = NoNode]
  /\ UNCHANGED <<json, mode, conf, cmd, cpuset, alive>>

(* A process replaces its program: execve(); bounded by Execs. *)
Exec(p) ==
  /\ p \in Execs /\ cmd[p] = CmdOf[p]
  /\ \E c \in Cmds \ {cmd[p]} : cmd' = [cmd EXCEPT ![p] = c]
  /\ UNCHANGED <<json, mode, conf, nodes, cpuset, alive>>

Next == \/ \E p \in Pids : Detect(p) \/ UpdateCmdline(p) \/ Vanish(p) \/ Exec(p)
        \/ \E p \in Pids, failed \in SUBSET Calls : Retry(p, failed)
        \/ \E k \in Containers : DockerStart(k)

(* The manage thread tries again in every loop; that writing to a CPU set
   does not fail for ever is assumed of the kernel. *)
Spec == Init /\ [][Next]_vars /\ \A p \in Pids : SF_vars(Retry(p, {}))
(***************************************************************************)
(* Properties.                                                             *)
(***************************************************************************)
Settings == Text \cup {"global"}
Blocks  == [at : {"global", "img", "cont", "pid"} \X Nat, val : Settings]
Images  == [id : Text, own : BOOLEAN, blk : Blocks, conts : Seq(Nat), pids : Seq(Nat)]
Conts   == [id : Text, own : BOOLEAN, ccrt : BOOLEAN, blk : Blocks, pids : Seq(Nat), img : Nat]
Entries == [sig : Cmds \cup {NoCmd, Freed}, own : BOOLEAN, blk : Blocks, cont : Int, img : Nat]
Confs   == [img : Seq(Images), cont : Seq(Conts), pid : Seq(Entries)]

(* The pointers of an entry of each list are null or lead to entries. *)
PidOK(c, p)  == p.cont \in -Len(c.img) .. Len(c.cont) /\ p.img \in 0 .. Len(c.img)
ContOK(c, k) == ToSet(k.pids) \subseteq DOMAIN c.pid /\ k.img \in 0 .. Len(c.img)
ImgOK(c, i)  == ToSet(i.pids) \subseteq DOMAIN c.pid /\ ToSet(i.conts) \subseteq DOMAIN c.cont

ConfOK(c) == /\ c \in Confs
             /\ \A p \in DOMAIN c.pid : PidOK(c, c.pid[p])
             /\ \A k \in DOMAIN c.cont : ContOK(c, c.cont[k])
             /\ \A i \in DOMAIN c.img : ImgOK(c, c.img[i])

(* Every pointer of the configuration and of the run-time list is null or
   leads to an entry. *)
TypeOK ==
  /\ json \in Inputs /\ mode \in Modes /\ alive \in BOOLEAN
  /\ ConfOK(conf)
  /\ cmd \in [Pids -> Cmds] /\ cpuset \in [Containers -> Settings \cup {None}]
  /\ nodes \in [Pids -> [pid : BOOLEAN, psig : Cmds \cup {NoCmd}, upd : BOOLEAN,
                         param : 0 .. Len(conf.pid), shared : 0 .. Len(conf.pid)]]
  /\ \A p \in Pids : nodes[p].shared \in {0, nodes[p].param}

(* The file has PIDs outside of images and containers. *)
LoosePids(j) == j.pids # << >>

(* checkContParam(): a pointer from an entry is null or leads to the only list
   that holds it; a null pointer is mended. *)
Agrees(pointer, holders) == IF pointer = 0 THEN Cardinality(holders) <= 1 ELSE holders \subseteq {pointer}

LinksConsistent(c) ==
  /\ \A k \in DOMAIN c.cont : Agrees(c.cont[k].img, {i \in DOMAIN c.img : k \in ToSet(c.img[i].conts)})
  /\ \A p \in DOMAIN c.pid :
        /\ Agrees(c.pid[p].img, {i \in DOMAIN c.img : p \in ToSet(c.img[i].pids)})
        /\ Agrees(c.pid[p].cont, {k \in DOMAIN c.cont : p \in ToSet(c.cont[k].pids)})

(* Whatever was found, duplicated and refreshed, the check that dumpStats()
   makes at the end finds no corrupted link.  PIDs outside of images and
   containers are excepted: the entry itself, not its copy, is put into the
   list of each container that matched it (resmgnt.c:1477). *)
LinksAgree == LoosePids(json) \/ LinksConsistent(conf)

(* What freeContParm() visits at the end, and the blocks it frees. *)
Visited(c)  == ({"img"} \X DOMAIN c.img) \cup ({"cont"} \X DOMAIN c.cont) \cup ({"pid"} \X DOMAIN c.pid)
Block(c, e) == c[e[1]][e[2]].blk.at
Released(c) == [e \in {v \in Visited(c) : c[v[1]][v[2]].own} |-> Block(c, e)]

(* No block of settings is freed twice at the end, and no entry uses a block
   that nobody owns, whatever was shared and copied before. *)
BlocksOwned == /\ IsInjective(Released(conf))
               /\ \A e \in Visited(conf) : Block(conf, e) \in Range(Released(conf)) \cup {Global.at}

(* A container of an image has PIDs of its own. *)
NestedPids(j) == \E i \in DOMAIN j.images : \E k \in DOMAIN j.images[i].conts :
                   j.images[i].conts[k].pids # << >>

(* The file puts a container of one of these IDs or names into the image. *)
PutInto(j, image, ids) == \E i \in DOMAIN j.images : \E k \in DOMAIN j.images[i].conts :
                            j.images[i].id = image /\ j.images[i].conts[k].id \in ids

(* The settings of an image are for a container that docker started from it,
   or that the file puts there by its ID or its name. *)
Concerns(j, image, id) == image = ImageOf[id] \/ PutInto(j, image, {id, NameOf[id]})

(* A process has no parameters of a container that is not its own: the CPU
   set of its container is written with its container's or its image's
   settings.  Excepted are PIDs configured for a container within an image:
   duplicated, they enter the list of the image (resmgnt.c:1212), where the
   processes of its other containers find them. *)
RightContainer ==
  \A p \in Pids : mode = "CGRP" /\ nodes[p].param # 0 /\ ~NestedPids(json) =>
    LET k == conf.pid[nodes[p].param].cont
    IN IF k < 0 THEN Concerns(json, conf.img[-k].id, ContOf[p])
       ELSE k # 0 => conf.cont[k].id = ContOf[p]

Rank(blk) == CASE blk.at[1] = "global" -> 0 [] blk.at[1] = "img" -> 1
               [] blk.at[1] = "cont" -> 2 [] blk.at[1] = "pid" -> 3

(* How specific the settings are a process of container k would be given:
   those of the entry a search by its ID finds. *)
Level(c, k) == LET x == Newest({y \in DOMAIN c.cont : c.cont[y].id = k})
               IN IF x = 0 THEN -1 ELSE Rank(c.cont[x].blk)

(* The file has settings for the container with this ID or name. *)
Configured(j, id) == \/ \E k \in DOMAIN j.conts : j.conts[k].id = id
                     \/ \E i \in DOMAIN j.images : \E k \in DOMAIN j.images[i].conts :
                           j.images[i].conts[k].id = id

(* The file names a container by its ID and, elsewhere, by its name. *)
NamedTwice(j) == \E k \in Containers : Configured(j, k) /\ Configured(j, NameOf[k])

(* The settings known for a container, and those of a listed process, only
   become more specific: no event and no detection falls back from settings
   of the container to those of its image or to the global ones.  Excepted is
   a container that the file names twice: the entry made of its name is the
   newer one and hides that of its ID, whatever either has (resmgnt.c:1242). *)
OnlyMoreSpecific ==
  [][/\ ~NamedTwice(json) => \A k \in Containers : Level(conf', k) >= Level(conf, k)
     /\ \A p \in Pids : nodes[p].param # 0 /\ nodes'[p].param # 0 =>
          Rank(conf'.pid[nodes'[p].param].blk) >= Rank(conf.pid[nodes[p].param].blk)]_vars

(* The parameters of process p know a container, and its settings a mask with
   CPUs: without, the write always fails (resmgnt.c:219, 225) or clears the
   CPU set. *)
Settable(p) == LET k == conf.pid[nodes[p].param].cont IN k # 0 /\ MaskOf(ContBlock(conf, k)) = "CPUs"

(* In CGroup mode, a process with parameters that stays in the list is marked
   as done in the end, and the CPU set of its container has been written,
   however often that failed, as long as there are CPUs to write. *)
SettingsWritten ==
  \A p \in Pids : (mode = "CGRP" /\ nodes[p].pid /\ nodes[p].param # 0) ~>
    (\/ nodes[p].upd /\ cpuset[ContOf[p]] # None
     \/ nodes[p].param = 0 \/ ~Settable(p))
=============================================================================
