----------------------------- MODULE MCBootstrap ----------------------------
(* A small instance of Bootstrap for TLC.  The releases are the one that   *)
(* was built, and those where one entry of the manifest, of the tree or of *)
(* both is missing, is one too many or is other than it should be, or one  *)
(* thing about their directory or the pointer to it is.                    *)
EXTENDS Bootstrap, TLC

MCLayout == [path \in {"bin", "bin/xsos", "web-assets.json"} |->
  IF path = "bin" THEN "directory" ELSE "file"]

Entry(kind, mode, content) == [kind |-> kind, mode |-> mode, content |-> content]
Built == [path \in DOMAIN MCLayout |->
  CASE path = "bin" -> Entry("directory", "0555", "none")
    [] path = "bin/xsos" -> Entry("file", "0555", "built")
    [] path = "web-assets.json" -> Entry("file", "0444", "built")]

Others == {Entry("file", "0444", "other"), Entry("file", "0644", "built"),
           Entry("link", "0444", "built")}
Without(path) == [other \in DOMAIN Built \ {path} |-> Built[other]]
OneOff == {Built} \union {Without(path) : path \in DOMAIN Built}
  \union {[Built EXCEPT ![path] = entry] : path \in DOMAIN Built, entry \in Others}
  \union {Built @@ ("more" :> entry) : entry \in Others}

Root == [physical |-> TRUE, version |-> "1", mode |-> "0555", owner |-> "root"]
Pointer == [physical |-> TRUE, modes |-> {"0755"}, owners |-> {"root"}, target |-> "1",
            changed |-> FALSE]
Bundle(named, bound, entries, tree) ==
  [named |-> named, root |-> Root, pointer |-> Pointer, own |-> TRUE, bound |-> bound,
   entries |-> entries, tree |-> tree]
Best == Bundle("current", TRUE, Built, Built)
MCReleases ==
  UNION {{Bundle("current", TRUE, other, Built), Bundle("current", TRUE, Built, other),
          Bundle("current", TRUE, other, other)} : other \in OneOff}
    \union {Bundle("none", bound, Built, Built) : bound \in BOOLEAN}
    \union {[Best EXCEPT !.own = FALSE],
            [Best EXCEPT !.named = "root", !.root.physical = FALSE],
            [Best EXCEPT !.named = "root", !.root.version = "2"],
            [Best EXCEPT !.named = "root", !.root.mode = "0755"], [Best EXCEPT !.root.owner = "user"],
            [Best EXCEPT !.pointer.physical = FALSE], [Best EXCEPT !.pointer.modes = {"0777"}],
            [Best EXCEPT !.pointer.owners = {"root", "user"}],
            [Best EXCEPT !.pointer.target = "2"], [Best EXCEPT !.pointer.changed = TRUE]}

Symmetry == Permutations(Procs) \union Permutations(Dirs) \union Permutations(Keys)
=============================================================================
