--------------------------- MODULE PackageResolve ---------------------------
(***************************************************************************)
(* Which packages clib install, update and upgrade install                 *)
(* (src/HW5/clib): clib_package_install calls itself for the dependencies  *)
(* of a package, through the static install_packages, and keeps the names  *)
(* it has met in visited_packages. The stack of those calls is `frames':   *)
(* the package, the directory its dependencies go to, which of its lists   *)
(* is being installed, and what is left of that list.                      *)
(***************************************************************************)
EXTENDS Integers, Sequences, FiniteSets

Root == "root"                     \* the manifest, or the command line, of the user

CONSTANTS
  Slugs,       \* author/name@version
  NameOf,      \* the name in the manifest of a slug
  Graphs,      \* bound: the dependencies the manifests may list
  Development, \* the development dependencies of a slug
  Wanted,      \* bound: what the user names
  MaxDepth     \* bound: calls under one another

ResolveAssumption ==
  /\ Development \in [Slugs \cup {Root} -> SUBSET Slugs] /\ DOMAIN NameOf = Slugs /\ MaxDepth \in Nat
  /\ Graphs \subseteq [Slugs -> SUBSET Slugs] /\ Wanted \subseteq SUBSET Slugs

Deps == "deps"                     \* opts.dir, or the temporary directory of an upgrade
Tmp == "tmp"                       \* the directory an executable package is unpacked in

VARIABLES
  dependencies, executable,        \* what the manifests say: dependencies, an install command
  command, force, global, dev, args, manifest,
  frames, visited_packages,
  placed,                          \* packages whose files are in a directory
  code,                            \* the exit code, once there is one
  failed                           \* a configure or install command ended with an error

world == <<dependencies, executable>>
opts == <<command, force, global, dev, args>>
vars == <<world, opts, manifest, frames, visited_packages, placed, code, failed>>

NoCode == -1
Frame(p, d, phase, list) == [pkg |-> p, dir |-> d, phase |-> phase, todo |-> list]
Top == frames[Len(frames)]
Below == SubSeq(frames, 1, Len(frames) - 1)
Running == code = NoCode /\ frames # <<>>

Init ==
  /\ dependencies \in Graphs
  /\ executable \in {{}} \cup {{s} : s \in Slugs}
  /\ command = "none" /\ force = FALSE /\ global = FALSE /\ dev = FALSE /\ args = {} /\ manifest = 1
  /\ frames = <<>> /\ visited_packages = {} /\ placed = {}
  /\ code = NoCode /\ failed = FALSE

Begin(c, f, g, d, wanted) ==
  /\ command = "none" /\ command' = c /\ args' = wanted
  /\ force' = f /\ global' = g /\ dev' = d
  /\ frames' = <<Frame(Root, Deps, "deps", wanted)>>
  /\ UNCHANGED <<world, manifest, visited_packages, placed, code, failed>>

(* The three programs. Without arguments the list is that of the manifest  *)
(* in the working directory ("local"). An update always forces; an upgrade *)
(* is of one package, always global, and has no --dev.                     *)
ClibInstall(c, f, g, d, wanted) == Begin(c, f, g, d, wanted)
ClibUpdate(c, d, wanted) == Begin(c, TRUE, FALSE, d, wanted)
ClibUpgrade(s, f) == Begin("upgrade", f, TRUE, FALSE, {s})

-----------------------------------------------------------------------------
Seen(s) == ~force /\ NameOf[s] \in visited_packages
Took(s) == [frames EXCEPT ![Len(frames)].todo = @ \ {s}]

(* --dev: the development packages of what the user named, even when a    *)
(* name has been met before, or of the user's own manifest.                *)
DevDue(depth, phase) ==
  /\ dev /\ phase = "deps"
  /\ depth = IF command = "local" THEN 1 ELSE 2

(* A name that has been met is not installed again, whatever its version,  *)
(* its author and the directory are.                                       *)
Visit(s) ==
  /\ Running /\ s \in Top.todo /\ Seen(s)
  /\ frames' = IF DevDue(Len(frames) + 1, "deps")
               THEN Append(Took(s), Frame(s, Deps, "dev", Development[s])) ELSE Took(s)
  /\ UNCHANGED <<world, opts, manifest, visited_packages, placed, code, failed>>

Place_NameNotEntered(s) ==
  /\ Running /\ s \in Top.todo /\ ~Seen(s) /\ Len(frames) < MaxDepth
  /\ placed' = IF global THEN placed ELSE placed \cup {<<s, Top.dir>>}
  /\ frames' = Append(Took(s), Frame(s, Top.dir, "deps", dependencies[s]))
  /\ UNCHANGED <<world, opts, manifest, visited_packages, code, failed>>

(* What clib_package_install does before configuring: the directory, the   *)
(* manifest, the files. The name is entered before the files are fetched.  *)
Place(s) ==
  /\ Running /\ s \in Top.todo /\ ~Seen(s) /\ Len(frames) < MaxDepth
  /\ visited_packages' = visited_packages \cup {NameOf[s]}
  /\ placed' = IF global THEN placed ELSE placed \cup {<<s, Top.dir>>}
  /\ frames' = IF s \in executable
               THEN Append(Took(s), Frame(s, Tmp, "install", dependencies[s]))
               ELSE Append(Took(s), Frame(s, Top.dir, "deps", dependencies[s]))
  /\ UNCHANGED <<world, opts, manifest, code, failed>>

(* The dependencies of an executable package are installed beside its      *)
(* sources; after its command they are asked for a second time.            *)
Executed ==
  /\ Running /\ Top.phase = "install" /\ Top.todo = {}
  /\ frames' = Append(Below, Frame(Top.pkg, Below[Len(Below)].dir, "deps", dependencies[Top.pkg]))
  /\ UNCHANGED <<world, opts, manifest, visited_packages, placed, code, failed>>

(* A configure or install command that fails: clib_package_install returns *)
(* its status, which install_packages takes for success unless it is -1. An*)
(* upgrade exits with it, that is with its lowest byte, which is 0 when the*)
(* command itself exited.                                                  *)
CommandFails ==
  /\ Running /\ Top.pkg # Root
  /\ \/ Top.phase = "install" /\ Top.todo \in {{}, dependencies[Top.pkg]}
     \/ Top.phase = "deps" /\ Top.pkg \notin executable /\ Top.todo = dependencies[Top.pkg]
  /\ failed' = TRUE
  /\ IF command = "upgrade" /\ Len(frames) = 2
     THEN code' \in {0, 1} /\ frames' = <<>> ELSE frames' = Below /\ UNCHANGED code
  /\ UNCHANGED <<world, opts, manifest, visited_packages, placed>>

Develop ==
  /\ Running /\ Top.todo = {} /\ DevDue(Len(frames), Top.phase)
  /\ frames' = Append(Below, Frame(Top.pkg, Top.dir, "dev", Development[Top.pkg]))
  /\ UNCHANGED <<world, opts, manifest, visited_packages, placed, code, failed>>

Return ==
  /\ Running /\ Len(frames) > 1
  /\ Top.todo = {} /\ ~DevDue(Len(frames), Top.phase) /\ Top.phase # "install"
  /\ frames' = Below
  /\ UNCHANGED <<world, opts, manifest, visited_packages, placed, code, failed>>

Exit ==
  /\ Running /\ Len(frames) = 1 /\ Top.todo = {} /\ ~DevDue(1, Top.phase)
  /\ code' = 0 /\ frames' = <<>>
  /\ UNCHANGED <<world, opts, manifest, visited_packages, placed, failed>>

-----------------------------------------------------------------------------
(* No manifest, a directory that cannot be made, or files that cannot be   *)
(* fetched: -1, which every caller passes on. The name may be entered by   *)
(* then. The manifest of the working directory has two possible names, and *)
(* the second is tried when the first did not do.                          *)
GiveUp ==
  /\ IF command = "local" /\ manifest = 1
     THEN /\ manifest' = 2 /\ frames' = <<Frame(Root, Deps, "deps", args)>> /\ UNCHANGED code
     ELSE /\ code' = 1 /\ frames' = <<>> /\ UNCHANGED manifest
  /\ UNCHANGED <<world, opts, placed, failed>>

Fail_Ignored(s) ==
  /\ Running /\ s \in Top.todo /\ ~Seen(s)
  /\ visited_packages' \in {visited_packages, visited_packages \cup {NameOf[s]}}
  /\ frames' = Took(s)
  /\ UNCHANGED <<world, opts, manifest, placed, code, failed>>
Fail(s) ==
  /\ Running /\ s \in Top.todo /\ ~Seen(s)
  /\ visited_packages' \in {visited_packages, visited_packages \cup {NameOf[s]}}
  /\ GiveUp

(* The archive of an executable package, fetched before its dependencies   *)
(* are asked for, cannot be had.                                           *)
ArchiveFails ==
  /\ Running /\ Top.phase = "install" /\ Top.todo = dependencies[Top.pkg]
  /\ UNCHANGED visited_packages /\ GiveUp

Next ==
  \/ \E f, g, d \in BOOLEAN, wanted \in Wanted :
       \/ \E c \in {"install", "local"} : ClibInstall(c, f, g, d, wanted)
       \/ \E c \in {"update", "local"} : ClibUpdate(c, d, wanted)
  \/ \E s \in Slugs, f \in BOOLEAN : ClibUpgrade(s, f)
  \/ \E s \in Slugs : Visit(s) \/ Place(s) \/ Fail(s)
  \/ Executed \/ ArchiveFails \/ CommandFails \/ Develop \/ Return \/ Exit

Spec == Init /\ [][Next]_vars

-----------------------------------------------------------------------------
(* The names under installation are all different, so that a cycle of      *)
(* dependencies ends and the calls are no deeper than there are names;     *)
(* with --force, and in every update, nothing stops a cycle.               *)
CyclesEnd ==
  ~force => \A j, k \in 2..Len(frames) :
              j # k => NameOf[frames[j].pkg] # NameOf[frames[k].pkg]

(* A run that ends with code 0 and whose commands all succeeded has put    *)
(* something of the right name in place for everything it was to install   *)
(* and for every dependency of what it installed: beside the others unless *)
(* an executable package had it put beside its own sources, where it does  *)
(* not serve the others, or the second manifest met a name that failed.    *)
HasName(s, d) == \E p \in placed : NameOf[p[1]] = NameOf[s] /\ p[2] = d
SuccessInstalls ==
  code = 0 /\ ~failed /\ ~global /\ manifest = 1 =>
    LET named == IF command = "local" THEN {Root} ELSE args
        needed == args \cup (UNION {dependencies[p[1]] : p \in placed})
                  \cup (IF dev THEN UNION {Development[p] : p \in named} ELSE {}) IN
    \A s \in needed : HasName(s, Deps) \/ HasName(s, Tmp)
=============================================================================
