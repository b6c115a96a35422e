--------------------------- MODULE SandcastlePaths ---------------------------
(***************************************************************************)
(* Sandcastle Paths: /remote/tenant/project/machine resolved against the   *)
(* Current Position, expanded for a listing (`sc ls`), rewritten into a     *)
(* machine reference for the commands that act on machines, and walked by   *)
(* `sc cd`, which moves the position.  Beside them the colon listing, read  *)
(* from the Auth App's cache or from Incus.                                 *)
(*                                                                         *)
(* A segment is a name, a shell pattern or "**"; which names a pattern      *)
(* matches is a constant.  Output, completion and name syntax are left out. *)
(* Paths of length 1 to 4 are the tree an install's certificate reaches;    *)
(* an install may be down, and then only its remote and tenant are known.   *)
(***************************************************************************)
EXTENDS Naturals, Sequences, FiniteSets, SequencesExt

CONSTANTS
  Paths,          \* the tree: a set of sequences of names, closed under prefixes
  Served,         \* the tenant each remote is recorded for, or NoName
  PatternMatches, \* pattern |-> the names it matches
  CdArgs,         \* the arguments of cd: [base, segs], base one of "abs", "rel", "home", "prev"
  PathArgs,       \* the arguments of ls and of the commands on machines
  BareNames,      \* machine names used bare
  CacheLags,      \* what the resource cache may lack: a set of sets of machine paths
  DownSets,       \* the sets of installs that may be unreachable
  NoName

PathRemotes == {p[1] : p \in Paths}
\* Every name and every segment of an argument.
Words ==
  {"default"} \cup ({Served[r] : r \in PathRemotes} \ {NoName})
  \cup UNION {{p[k] : k \in DOMAIN p} : p \in Paths \cup {arg.segs : arg \in CdArgs \cup PathArgs}}
\* The selection of config.yml, and a directory's with its history.
Globals == [remote : PathRemotes, tenant : Words, project : Words]
DirRecords ==
  [remote : PathRemotes, tenant : Words \cup {NoName}, project : Words, level : 0..3,
   prev : Seq(Words) \cup {NoName}, remembered : [PathRemotes -> Words \cup {NoName}]]

ASSUME PathsAssumption ==
  /\ \A p \in Paths : p \in Seq(Words) /\ Len(p) \in 1..4 /\ \A k \in 1..Len(p) : SubSeq(p, 1, k) \in Paths
  /\ \A arg \in CdArgs \cup PathArgs : arg.segs \in Seq(Words)
  /\ NoName \notin DOMAIN PatternMatches \cup Words /\ NoName \notin Seq(Words) /\ NoName \notin DirRecords
  /\ "*" \in DOMAIN PatternMatches /\ \A p \in Paths : p[Len(p)] \in PatternMatches["*"]

VARIABLES
  here,    \* the nearest .sandcastle, or NoName
  global,  \* the selection of config.yml
  asked,   \* the last command and what it was asked
  moved    \* the last `sc cd`: where from, where to, and whether it succeeded

pathVars == <<here, global, asked, moved>>

Level == [root |-> 0, remote |-> 1, tenant |-> 2, project |-> 3, machine |-> 4]
Globstar == "**"
IsPattern(s) == s = Globstar \/ s \in DOMAIN PatternMatches
MatchName(pattern, name) == IF IsPattern(pattern) THEN name \in PatternMatches[pattern] ELSE pattern = name
Globstars(segs) == Cardinality({i \in 1..Len(segs) : segs[i] = Globstar})
Fixed(segs) == Len(segs) - Globstars(segs)

-----------------------------------------------------------------------------
(* The Current Position                                                    *)

\* A .sandcastle that names nothing.
NoDir == [remote |-> NoName, tenant |-> NoName, project |-> NoName, level |-> Level.project, prev |-> NoName,
          remembered |-> [r \in PathRemotes |-> NoName]]

\* LoadUser: the directory's selection over the global one.
Dir(s) == IF s.here = NoName THEN NoDir ELSE s.here
AdminOf(s) ==
  LET d == Dir(s)
      r == IF d.remote # NoName THEN d.remote ELSE s.global.remote
  IN [remote |-> r, project |-> IF d.remote # NoName THEN d.project ELSE s.global.project,
      tenant |-> IF d.tenant # NoName THEN d.tenant
                 ELSE IF Served[r] # NoName THEN Served[r] ELSE s.global.tenant]
Admin == AdminOf([here |-> here, global |-> global])

CurrentPosition ==
  SubSeq(<<Admin.remote, Admin.tenant, Admin.project>>, 1,
         IF here = NoName THEN Level.project ELSE here.level)
HomePosition ==
  <<global.remote, IF Served[global.remote] # NoName THEN Served[global.remote] ELSE global.tenant, global.project>>

TenantOfRemote(r) ==
  IF Served[r] # NoName THEN Served[r] ELSE IF r = Admin.remote THEN Admin.tenant ELSE NoName

\* resolvePath: fold "." and ".." onto the base; nothing is deeper than a
\* machine, "**" counting for nothing.
FoldSegment(path, s) ==
  CASE s = "." -> path
    [] s = ".." -> IF path = <<>> THEN path ELSE Front(path)
    [] OTHER -> Append(path, s)
NoPath == [ok |-> FALSE, segs |-> <<>>]
ResolvePath(arg) ==
  IF arg.base = "prev"
  THEN IF here = NoName \/ here.prev = NoName THEN NoPath ELSE [ok |-> TRUE, segs |-> here.prev]
  ELSE LET base == CASE arg.base = "abs" -> <<>> [] arg.base = "home" -> HomePosition [] OTHER -> CurrentPosition
           segs == FoldLeft(FoldSegment, base, arg.segs)
       IN IF Fixed(segs) > Level.machine THEN NoPath ELSE [ok |-> TRUE, segs |-> segs]

-----------------------------------------------------------------------------
(* The tree, as a listing reads it                                         *)

NoChildren == [ok |-> FALSE, names |-> {}]
Under(path) == {p[Len(path) + 1] : p \in {q \in Paths : IsStrictPrefix(path, q)}}

\* childrenOf: a remote shows the one tenant it serves, reachable or not.
ChildrenOf(path, down) ==
  CASE Len(path) = Level.root -> [ok |-> TRUE, names |-> PathRemotes]
    [] Len(path) = Level.remote ->
         LET served == TenantOfRemote(path[1])
         IN IF path[1] \notin PathRemotes THEN NoChildren
            ELSE IF served # NoName THEN [ok |-> TRUE, names |-> {served}]
            ELSE IF path[1] \in down THEN NoChildren ELSE [ok |-> TRUE, names |-> Under(path)]
    [] Len(path) \in {Level.tenant, Level.project} ->
         IF path[1] \in down \/ path \notin Paths THEN NoChildren ELSE [ok |-> TRUE, names |-> Under(path)]
    [] OTHER -> NoChildren

\* descendants: everything below a directory, as deep as the rest leaves
\* room for; a subtree that cannot be read is skipped.
Descendants(path, depth, down) ==
  {p \in Paths : /\ IsStrictPrefix(path, p) /\ Len(p) <= depth
                 /\ \A k \in Len(path)..(Len(p) - 1) :
                      p[k + 1] \in ChildrenOf(SubSeq(p, 1, k), down).names}

\* expandPath: one segment at a time over the set of matches so far.  Below a
\* "**" nothing is taken on trust and what cannot be read is skipped.
Loose(segs, i) == \E k \in 1..(i - 1) : segs[k] = Globstar
Trusted(segs, i, m) == ~IsPattern(segs[i]) /\ Len(m) # Level.project /\ ~Loose(segs, i)
Room(segs, i) == Level.machine - Fixed(SubSeq(segs, i + 1, Len(segs)))
Extensions(segs, i, m, down) ==
  IF segs[i] = Globstar THEN {m} \cup Descendants(m, Room(segs, i), down)
  ELSE IF Trusted(segs, i, m) THEN {Append(m, segs[i])}
  ELSE {Append(m, c) : c \in {n \in ChildrenOf(m, down).names : MatchName(segs[i], n)}}
Extended(segs, i, found, down) ==
  LET dirs == {m \in found : Len(m) < Level.machine}
      unreadable(m) == segs[i] # Globstar /\ ~Trusted(segs, i, m) /\ ~Loose(segs, i) /\ ~ChildrenOf(m, down).ok
  IN IF \E m \in dirs : unreadable(m) THEN {} ELSE UNION {Extensions(segs, i, m, down) : m \in dirs}
ExpandPath(segs, down) ==
  LET extend(found, i) == Extended(segs, i, found, down)
      matches == FoldLeftDomain(extend, {<<>>}, segs)
  IN [ok |-> matches # {}, at |-> matches]

-----------------------------------------------------------------------------
(* The machines a reference designates                                     *)

Stars(segs) == [i \in 1..(Level.machine - Fixed(segs)) |-> "*"]
\* Mutant: the missing levels are added at the end.
ExpandGlobstarAtEnd(segs) ==
  LET plain == SelectSeq(segs, LAMBDA s : s # Globstar)
  IN IF Len(plain) = Len(segs) THEN segs
     ELSE plain \o Stars(segs)

\* expandGlobstarToMachine: the first "**" absorbs the missing levels, the
\* others none.
ExpandGlobstarToMachine(segs) ==
  LET out[i \in 0..Len(segs)] ==
        IF i = 0 THEN <<>>
        ELSE IF segs[i] # Globstar THEN Append(out[i - 1], segs[i])
        ELSE IF Loose(segs, i) THEN out[i - 1] ELSE out[i - 1] \o Stars(segs)
  IN out[Len(segs)]

\* pathToMachineReference: remote:project:machine; a remote that is named
\* must be enrolled and serve the tenant.
PathToMachineReference(resolved) ==
  LET segs == ExpandGlobstarToMachine(resolved)
      allowed == \/ IsPattern(segs[1])
                 \/ /\ segs[1] \in PathRemotes
                    /\ TenantOfRemote(segs[1]) # NoName => MatchName(segs[2], TenantOfRemote(segs[1]))
  IN IF Len(segs) # Level.machine \/ ~allowed THEN [ok |-> FALSE]
     ELSE [ok |-> TRUE, remote |-> segs[1], project |-> segs[3], machine |-> segs[4]]

\* bindConfigToRemote: the current remote keeps the current tenant, another
\* one brings its own.
TenantBoundTo(r) == IF r = Admin.remote \/ Served[r] = NoName THEN Admin.tenant ELSE Served[r]

ProjectsIn(r, t) == {p[3] : p \in {q \in Paths : Len(q) >= 3 /\ q[1] = r /\ q[2] = t}}
\* selectMachines on one install; a project that is named must exist.
SelectMachines(ref, r, down) ==
  LET t == TenantBoundTo(r)
  IN IF r \in down \/ <<r, t>> \notin Paths THEN [ok |-> FALSE, missing |-> FALSE, set |-> {}]
     ELSE IF ~IsPattern(ref.project) /\ ref.project \notin ProjectsIn(r, t)
     THEN [ok |-> FALSE, missing |-> TRUE, set |-> {}]
     ELSE [ok |-> TRUE, missing |-> FALSE,
           set |-> {p \in Paths : /\ Len(p) = 4 /\ p[1] = r /\ p[2] = t
                                  /\ MatchName(ref.project, p[3]) /\ MatchName(ref.machine, p[4])}]

\* selectMachinesAcrossRemotes: any install that fails fails the sweep; a
\* missing project only when every install misses it.
SelectMachinesAcrossRemotes(ref, down) ==
  LET remotes == {r \in PathRemotes : MatchName(ref.remote, r)}
      of(r) == SelectMachines(ref, r, down)
  IN IF ~ref.ok THEN [ok |-> FALSE, set |-> {}]
     ELSE IF ~IsPattern(ref.remote) THEN [ok |-> of(ref.remote).ok, set |-> of(ref.remote).set]
     ELSE IF remotes = {} \/ (\E r \in remotes : ~of(r).ok /\ ~of(r).missing) \/ (\A r \in remotes : of(r).missing)
     THEN [ok |-> FALSE, set |-> {}]
     ELSE [ok |-> TRUE, set |-> UNION {of(r).set : r \in remotes}]

\* resolveV2MachineTarget for a bare name: the current project, else the one
\* project of the tenant that has it; several ask.
ResolveV2MachineTarget(name, view) ==
  LET a == Admin
      projects == {p[3] : p \in {q \in view : Len(q) = 4 /\ q[1] = a.remote /\ q[2] = a.tenant /\ q[4] = name}}
  IN IF a.project \in projects \/ projects = {} THEN {a.project}
     ELSE IF Cardinality(projects) = 1 THEN projects ELSE {}

-----------------------------------------------------------------------------
(* The colon listing: from the cache, from Incus                           *)

NoListing == [ok |-> FALSE, set |-> {}]
ProjectFilter(q) == IF q.project = NoName /\ ~q.all THEN Admin.project ELSE q.project
Filtered(view, project, name) ==
  {p \in view : /\ Len(p) = 4 /\ p[1] = Admin.remote /\ p[2] = Admin.tenant
                /\ project = NoName \/ MatchName(project, p[3])
                /\ name = NoName \/ MatchName(name, p[4])}

\* listMachinesRaw: only a project named in the request must exist.
ListMachinesRaw(q, down) ==
  LET a == Admin
  IN IF a.remote \in down \/ <<a.remote, a.tenant>> \notin Paths THEN NoListing
     ELSE IF q.project # NoName /\ ~IsPattern(q.project) /\ q.project \notin ProjectsIn(a.remote, a.tenant) THEN NoListing
     ELSE [ok |-> TRUE, set |-> Filtered(Paths, ProjectFilter(q), q.machine)]

\* listMachinesViaCache: resourcesAPI over the snapshot; NoListing falls back.
ResourcesAPI(q, view) ==
  LET a == Admin
      f == ProjectFilter(q)
  IN IF <<a.remote, a.tenant>> \notin Paths THEN NoListing
     ELSE IF f # NoName /\ ~IsPattern(f) /\ f \notin ProjectsIn(a.remote, a.tenant) THEN NoListing
     ELSE [ok |-> TRUE, set |-> Filtered(view, f, q.machine)]

-----------------------------------------------------------------------------
(* sc cd                                                                   *)

\* directorySelection: the file's history, with the effective pair.
Remembering(d) == IF d.remote = NoName THEN d ELSE [d EXCEPT !.remembered[d.remote] = d.project]
DirectorySelection(s, a) ==
  [Remembering(Dir(s)) EXCEPT !.remote = a.remote, !.project = a.project, !.remembered[a.remote] = a.project]

PinnedProject(r) == LET t == IF Served[r] # NoName THEN Served[r] ELSE global.tenant
                    IN IF ProjectsIn(r, t) = {} THEN "default" ELSE CHOOSE p \in ProjectsIn(r, t) : TRUE
Failed(s) == [s EXCEPT !.ok = FALSE]

\* switchRemoteSelection
SwitchRemote(s, r) ==
  LET d == DirectorySelection(s, AdminOf(s))
      project == IF d.remembered[r] # NoName THEN d.remembered[r] ELSE PinnedProject(r)
  IN IF r \notin PathRemotes THEN Failed(s)
     ELSE [s EXCEPT !.here = [d EXCEPT !.remote = r, !.project = project, !.remembered[r] = project,
                                !.tenant = IF Served[r] # NoName THEN Served[r] ELSE s.global.tenant]]

\* runTenantSwitch: the global file follows, and with it a remote enrolled
\* for the tenant.
SwitchTenant(s, t, localOnly, down) ==
  LET r == AdminOf(s).remote
      reached == r \notin down /\ <<r, t>> \in Paths
      enrolled == {x \in PathRemotes : Served[x] = t}
      to == IF enrolled = {} \/ s.global.remote \in enrolled THEN s.global.remote ELSE CHOOSE x \in enrolled : TRUE
      g == [s.global EXCEPT !.remote = to, !.tenant = t, !.project = IF to = s.global.remote THEN @ ELSE PinnedProject(to)]
  IN IF ~localOnly /\ ~reached THEN Failed(s)
     ELSE [s EXCEPT !.global = g,
             !.here = IF localOnly /\ to = s.global.remote THEN @
                      ELSE [Remembering(Dir(s)) EXCEPT !.remote = to, !.project = g.project, !.tenant = t,
                                                       !.remembered[to] = g.project]]

\* switchProjectSelection
SwitchProject(s, p, localOnly, down) ==
  LET a == AdminOf(s)
      d == DirectorySelection(s, a)
  IN IF ~localOnly /\ (a.remote \in down \/ p \notin ProjectsIn(a.remote, a.tenant)) THEN Failed(s)
     ELSE [s EXCEPT !.here = [d EXCEPT !.project = p, !.remembered[d.remote] = p]]

\* The position is written last, over the selection the switches wrote.
SavePosition(s, a, target, before) ==
  LET over(level, old) == IF Len(target) >= level THEN target[level] ELSE old
      known(d, r) == IF d.remembered[r] # NoName THEN d.remembered[r] ELSE d.project
      at(d, r) == [d EXCEPT !.remote = r, !.tenant = over(Level.tenant, @),
                            !.project = over(Level.project, known(d, r)),
                            !.remembered[r] = over(Level.project, @),
                            !.level = Len(target), !.prev = before]
      loaded == DirectorySelection(s, a)
  IN [s EXCEPT !.here = at(loaded, over(Level.remote, loaded.remote))]

\* runCd: the target is one directory its remote serves; then the switches,
\* each on what the one before it saved.
CdTarget(arg, localOnly) ==
  LET r == ResolvePath(arg)
      t == r.segs
  IN IF \/ ~r.ok \/ Len(t) >= Level.machine \/ \E i \in 1..Len(t) : IsPattern(t[i])
        \/ Len(t) > 0 /\ t[1] \notin PathRemotes
        \/ Len(t) > 1 /\ ~localOnly /\ TenantOfRemote(t[1]) \notin {NoName, t[2]}
     THEN NoPath ELSE r
AfterRemote(s, target) ==
  IF Len(target) > 0 /\ target[1] # AdminOf(s).remote THEN SwitchRemote(s, target[1]) ELSE s
AfterTenant(s, target, localOnly, down) ==
  IF s.ok /\ Len(target) > 1 /\ target[2] # AdminOf(s).tenant
  THEN SwitchTenant(s, target[2], localOnly, down) ELSE s
AfterProject(s, target, localOnly, down) ==
  IF s.ok /\ Len(target) > 2 /\ target[3] # AdminOf(s).project
  THEN SwitchProject(s, target[3], localOnly, down) ELSE s

-----------------------------------------------------------------------------
(* Commands                                                                *)

NothingAsked == [op |-> "none"]
NotMoved == [ok |-> TRUE, from |-> NoName, to |-> NoName]
PathsInit ==
  /\ here = NoName /\ asked = NothingAsked
  /\ moved = NotMoved
  /\ \E r \in PathRemotes, p \in {q[3] : q \in {x \in Paths : Len(x) = 3}} :
       /\ Served[r] # NoName /\ <<r, Served[r], p>> \in Paths
       /\ global = [remote |-> r, tenant |-> Served[r], project |-> p]

Cd(arg, localOnly, down) ==
  \E target \in {CdTarget(arg, localOnly)}, from \in {CurrentPosition} :
    /\ target.ok
    /\ \E s1 \in {AfterRemote([ok |-> TRUE, here |-> here, global |-> global], target.segs)} :
       \E s2 \in {AfterTenant(s1, target.segs, localOnly, down)} :
       \E s3 \in {AfterProject(s2, target.segs, localOnly, down)} :
       \E s \in {IF s3.ok THEN SavePosition(s3, AdminOf(s2), target.segs, from) ELSE s3} :
         /\ here' = s.here /\ global' = s.global
         /\ moved' = [ok |-> s.ok, from |-> from, to |-> target.segs]
    /\ asked' = NothingAsked

\* ls, and a command that acts on machines, with the same argument.
Ask(arg, down) ==
  /\ ResolvePath(arg).ok
  /\ asked' = [op |-> "path", segs |-> ResolvePath(arg).segs, down |-> down]
  /\ moved' = NotMoved
  /\ UNCHANGED <<here, global>>

AskBare(name, lag) ==
  /\ asked' = [op |-> "bare", name |-> name, view |-> Paths \ lag]
  /\ moved' = NotMoved
  /\ UNCHANGED <<here, global>>

AskList(project, name, all, down) ==
  /\ asked' = [op |-> "list", q |-> [project |-> project, machine |-> name, all |-> all], down |-> down]
  /\ moved' = NotMoved
  /\ UNCHANGED <<here, global>>

FilterValues == {NoName} \cup DOMAIN PatternMatches
PathsNext ==
  /\ asked = NothingAsked
  /\ \/ \E arg \in CdArgs, localOnly \in BOOLEAN, down \in DownSets : Cd(arg, localOnly, down)
     \/ \E arg \in PathArgs, down \in DownSets : Ask(arg, down)
     \/ \E name \in BareNames, lag \in CacheLags : AskBare(name, lag)
     \/ \E project \in FilterValues \cup {p[3] : p \in {q \in Paths : Len(q) = 3}}, name \in FilterValues \cup BareNames,
           all \in BOOLEAN, down \in DownSets : AskList(project, name, all, down)

PathsSpec == PathsInit /\ [][PathsNext]_pathVars

-----------------------------------------------------------------------------
(* Properties                                                              *)

\* Both files name what exists, and what was asked is a path of words.
PathsTypeOK ==
  /\ global \in Globals /\ here \in DirRecords \cup {NoName}
  /\ asked.op \in {"none", "path", "bare", "list"}
  /\ asked.op = "path" => asked.segs \in Seq(Words)

\* What a path means: how many of the path's names the first segments can
\* stand for, "**" any number of them.
Means(segs, path) ==
  LET reach[i \in 0..Len(segs)] ==
        IF i = 0 THEN {0}
        ELSE IF segs[i] = Globstar THEN {j \in 0..Len(path) : \E k \in reach[i - 1] : k <= j}
        ELSE {j \in 1..Len(path) : j - 1 \in reach[i - 1] /\ MatchName(segs[i], path[j])}
  IN Len(path) \in reach[Len(segs)]

\* The tree `sc ls /` walks: a remote shows the tenant it serves.
Shown == {<<>>} \cup {p \in Paths : Len(p) > 1 => TenantOfRemote(p[1]) \in {NoName, p[2]}}

\* `sc ls path` lists exactly the paths of the tree the argument means, for
\* every mix of names, patterns and one "**" (expandPath, descendants, the
\* literal segments taken on trust).
ListsWhatItMeans ==
  (asked.op = "path" /\ asked.down = {} /\ Globstars(asked.segs) <= 1 /\ Fixed(asked.segs) < Level.machine)
    => LET found == ExpandPath(asked.segs, asked.down)
       IN found.ok => found.at \cap Shown = {p \in Shown : Means(asked.segs, p)}

ShownAs(r, t, tenant) == ChildrenOf(<<r>>, {}).names \subseteq {t} /\ MatchName(tenant, t)

\* A command that acts on machines acts on exactly the machines `sc ls` shows
\* for the same argument, when of every remote the path reaches the tree shows
\* only the tenant the command binds it to, and the path's tenant is that one.
ActsOnWhatIsListed ==
  LET segs == ExpandGlobstarToMachine(asked.segs)
      acted == SelectMachinesAcrossRemotes(PathToMachineReference(asked.segs), asked.down)
      listed == ExpandPath(asked.segs, asked.down)
  IN (/\ asked.op = "path" /\ Globstars(asked.segs) <= 1 /\ Len(segs) = Level.machine
      /\ \A r \in PathRemotes : MatchName(segs[1], r) => ShownAs(r, TenantBoundTo(r), segs[2])
      /\ acted.ok /\ listed.ok)
       => acted.set = {p \in listed.at : Len(p) = Level.machine}

\* After `sc cd` the position is the target and `-` leads back (runCd over
\* the three switches and the reload between them).
CdArrives ==
  moved.ok /\ moved # NotMoved
    => CurrentPosition = moved.to /\ ResolvePath([base |-> "prev", segs |-> <<>>]).segs = moved.from

\* The Auth App's answer is the live one whenever the cache holds what Incus
\* does (resourcesAPI against listMachinesRaw).
CacheAnswersLive ==
  asked.op = "list" =>
    LET cached == ResourcesAPI(asked.q, Paths)
        live == ListMachinesRaw(asked.q, {})
    IN cached.ok => live.ok /\ cached.set = live.set

\* "The tenant segment must be the tenant the remote serves": what a command
\* acts on lies under the tenant its path names.
TenantSegmentHonoured ==
  asked.op = "path" =>
    LET segs == ExpandGlobstarToMachine(asked.segs)
    IN \A p \in SelectMachinesAcrossRemotes(PathToMachineReference(asked.segs), asked.down).set : MatchName(segs[2], p[2])

\* "** matches zero or more levels: each match stays", with any number of them.
GlobstarMatchesNone ==
  (asked.op = "path" /\ asked.down = {}) =>
    LET found == ExpandPath(asked.segs, asked.down)
    IN found.ok => {p \in Shown : Means(asked.segs, p)} \subseteq found.at

\* "A bare machine name means the CURRENT project when the machine exists there."
BareNameIsHere ==
  asked.op = "bare" =>
    (<<Admin.remote, Admin.tenant, Admin.project, asked.name>> \in Paths
       => ResolveV2MachineTarget(asked.name, asked.view) \subseteq {Admin.project})

\* "Like a shell cd, the target must exist": a cd that fails leaves the position.
FailedCdStays == ~moved.ok => CurrentPosition = moved.from

\* A path means one thing to every command: what it lists, what it acts on,
\* where cd goes, and what the Auth App answers instead of Incus.
PathsMeanOneThing == ListsWhatItMeans /\ ActsOnWhatIsListed /\ CdArrives /\ CacheAnswersLive
=============================================================================
