------------------------------- MODULE Release ------------------------------
(***************************************************************************)
(* What `run' and `verify-release' accept as a release of this binary:     *)
(* verify_release of release_bundle.rs.  The manifest lists the entries of *)
(* the tree; it has to be exactly the layout that is compiled in, and the  *)
(* tree exactly what the manifest lists.                                   *)
(*                                                                         *)
(* Abstractions.  A digest stands for its content; the spelling of paths,  *)
(* the sizes and the identity of files between two calls are left out: a   *)
(* release is read-only, and the tree does not change during the walk.     *)
(* That a path is absolute, physical and spelled in one way is one flag.   *)
(***************************************************************************)
EXTENDS Naturals, FiniteSets

CONSTANTS
  Layout,    \* the kind of each path: validate_exact_layout
  Server,    \* bin/xsos
  Assets,    \* web-assets.json
  Compiled,  \* the content of Assets that is compiled in
  Version,   \* APPLICATION_VERSION
  Releases   \* what may be installed

ASSUME FiniteAssumption ==
  /\ IsFiniteSet(DOMAIN Layout)
  /\ \A release \in Releases :
       IsFiniteSet(DOMAIN release.entries) /\ IsFiniteSet(DOMAIN release.tree)

\* Entries of the manifest and of the tree have a kind, a mode and a content.
RequiredMode(path, kind) ==
  IF kind = "directory" \/ path = Server THEN "0555" ELSE "0444"

\* parse_entries
ParsedEntries(entries) ==
  \A path \in DOMAIN entries :
    /\ entries[path].kind \in {"directory", "file"}
    /\ entries[path].mode = RequiredMode(path, entries[path].kind)

\* validate_exact_layout
ExactLayout(entries) ==
  /\ Cardinality(DOMAIN entries) = Cardinality(DOMAIN Layout)
  /\ \A path \in DOMAIN Layout : path \in DOMAIN entries /\ entries[path].kind = Layout[path]

\* validate_directory, from the root down.  What is neither a file nor a
\* directory, and a file with another link, is not what an entry lists.
WalkAgrees(tree, entries) ==
  \A path \in DOMAIN tree : path \in DOMAIN entries /\ tree[path] = entries[path]

\* seen.len() == expected.len().  (Mutation: not looked at.)
SeenSome(tree, entries) == TRUE
SeenAll(tree, entries) == Cardinality(DOMAIN tree) = Cardinality(DOMAIN entries)

\* validate_release_root: releases/VERSION, of real directories.
ReleaseRoot(root) == root.physical /\ root.version = Version /\ root.mode = "0555"

\* resolve_run_root: the directory itself, or the pointer `current' beside
\* `releases', which its owner alone may change, and which did not change while
\* it was looked at.  What is run is the directory, whatever the pointer becomes.
ResolvedRoot(release) ==
  LET pointer == release.pointer IN
  /\ ReleaseRoot(release.root)
  /\ release.named = "current" =>
       /\ pointer.physical
       /\ pointer.modes = {"0755"}
       /\ pointer.owners = {release.root.owner}
       /\ pointer.target = Version
       /\ ~pointer.changed

\* verify_release_with_options: `own' says that the manifest names this binary's
\* exact identity and the process runs from the tree.
Verified(release) ==
  /\ ReleaseRoot(release.root)
  /\ release.own /\ release.bound
  /\ ParsedEntries(release.entries)
  /\ ExactLayout(release.entries)
  /\ WalkAgrees(release.tree, release.entries)
  /\ Assets \in DOMAIN release.tree /\ release.tree[Assets].content = Compiled
  /\ SeenAll(release.tree, release.entries)

\* Run: with --release-root the release is resolved and verified, without it the
\* binary must not be bound to a source revision.
MayRun(release) ==
  IF release.named = "none" THEN ~release.bound
  ELSE ResolvedRoot(release) /\ Verified(release)
=============================================================================
