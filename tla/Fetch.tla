-------------------------------- MODULE Fetch --------------------------------
(***************************************************************************)
(* compiler/pkgmanager: "skink get" reads skink.mod and fetches what it       *)
(* requires, one package after the other, into the cache of the project.    *)
(*                                                                          *)
(* A definition whose name starts with Mut is a broken version of the one     *)
(* after it, used to test that a property notices; no specification uses it. *)
(***************************************************************************)
EXTENDS Program

VARIABLES
    wanted,     \* the lines whose packages are still to be fetched
    cache       \* what is in the directory of each package, the sequence of
                \* the names on the way to it: "none", a version, or "part" of one

fetchVars == <<wanted, cache>>

FetchInit == wanted = {} /\ cache = input.cache

unfetched == <<pass, paths, home, decls, symbolInfo>>

(* Whether a line lies in a block of requirements.                          *)
InBlock(lines, i) ==
    \E j \in 1..(i - 1) : lines[j].key = "require (" /\ \A k \in j..(i - 1) : lines[k].key # ")"

(* Forgets the lines of a block and the bare paths.                         *)
MutRequires(lines) ==
    {i \in DOMAIN lines : lines[i].fields >= 2 /\ lines[i].key \in {"require", "requires"}}

(* A line of skink.mod asks for a package in one of three ways: with          *)
(* "require", in a block, or by its path alone; "module", "version" and        *)
(* comments ask for none.  "package" and "version" are what it names as the     *)
(* path and the version, where it stands.                                    *)
Requires(lines) ==
    {i \in DOMAIN lines :
        /\ lines[i].fields >= 2
        /\ IF InBlock(lines, i) THEN lines[i].key \notin {"require (", ")", "comment"}
           ELSE lines[i].key \in {"require", "requires", "path"}}

(* The cache has a place for each package that is asked for.                 *)
ASSUME CacheAssumption ==
    \A i \in Inputs : \A l \in Requires(i.mod) : i.mod[l].package \in DOMAIN i.cache

FetchAll ==
    /\ stage = "get"
    /\ IF input.mod = <<>> THEN Goes("exit") /\ UNCHANGED wanted
       ELSE Goes("fetch") /\ wanted' = Requires(input.mod)
    /\ UNCHANGED <<unfetched, cache>>

(* The lines are taken in their order.                                       *)
NextLine(i) == \A j \in wanted : i <= j

(* DownloadAndUnpack up to the answer of the server: only a package of GitHub  *)
(* has an address; the version is asked for as a tag, then as a branch.        *)
DownloadFails ==
    /\ stage = "fetch" /\ wanted # {}
    /\ Goes("exit")
    /\ UNCHANGED <<unfetched, wanted, cache>>

(* Whether a package lies in the directory of another one.                   *)
LiesIn(p, q) == IsStrictPrefix(q, p)

(* The directory of a package is removed, with the packages below it, and      *)
(* filled with what the archive has in these places.                         *)
Fill(package, content) ==
    \E below \in [DOMAIN cache -> {"none", "part"}] :
        cache' = [p \in DOMAIN cache |-> IF p = package THEN content
                                         ELSE IF LiesIn(p, package) THEN below[p] ELSE cache[p]]

(* From the removal of what was there to the last file of the archive.       *)
UnpackFails ==
    /\ stage = "fetch"
    /\ \E i \in wanted :
          /\ NextLine(i) /\ input.mod[i].package \in input.github
          /\ Fill(input.mod[i].package, "none") \/ Fill(input.mod[i].package, "part")
    /\ Goes("exit")
    /\ UNCHANGED <<unfetched, wanted>>

Unpack ==
    /\ stage = "fetch"
    /\ \E i \in wanted :
          /\ NextLine(i) /\ input.mod[i].package \in input.github
          /\ Fill(input.mod[i].package, input.mod[i].version)
          /\ wanted' = wanted \ {i}
    /\ UNCHANGED programVars

Fetched ==
    /\ stage = "fetch" /\ wanted = {}
    /\ Goes("done")
    /\ UNCHANGED <<unfetched, fetchVars>>

=============================================================================
