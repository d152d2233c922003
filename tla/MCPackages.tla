----------------------------- MODULE MCPackages -----------------------------
EXTENDS PackageTool
One == <<49, 46, 48, 46, 48>>
Two == <<50, 46, 48, 46, 48>>
Pre == <<51, 46, 48, 46, 48, 45, 97>>
MCNames == {"a", "b", "c"}
MCVersions == {One, Two, Pre}
Package(deps) == [published |-> TRUE, deps |-> deps, imports |-> [i \in DOMAIN deps |-> deps[i][1]]]
Unpublished == [published |-> FALSE, deps |-> <<>>, imports |-> <<>>]
Empty == [n \in MCNames |-> [v \in MCVersions |-> "none"]]
Everything(r) ==
  [n \in MCNames |-> [v \in MCVersions |-> IF r[n][v].published THEN "good" ELSE "none"]]

\* Every graph in which the two versions of a and b need nothing or one
\* package, installed and without a project; c has a prerelease.
Needs ==
  {<<>>, <<<<"c", One>>>>} \cup {<<<<n, v>>>> : n \in {"a", "b"}, v \in {One, Two}}
Remotes ==
  {[n \in MCNames |-> [v \in MCVersions |->
      IF v = Pre THEN (IF n = "c" THEN Package(<<>>) ELSE Unpublished)
      ELSE IF n = "c" THEN Package(<<>>)
      ELSE Package(f[<<n, v>>])]] : f \in [{"a", "b"} \X {One, Two} -> Needs]}
LocalWorlds ==
  {[remote |-> r, disk |-> [d \in {"cli", "project", "user"} |-> IF d = "project" THEN Everything(r) ELSE Empty],
    project |-> FALSE, budget |-> 1] : r \in Remotes}

\* A project: b needs c, a needs b and c, and a 2.0.0 needs two versions of c.
ProjectRemote ==
  [n \in MCNames |-> [v \in MCVersions |->
    CASE n = "a" /\ v = One -> Package(<<<<"b", One>>, <<"c", One>>>>)
      [] n = "a" /\ v = Two -> Package(<<<<"b", Two>>, <<"c", One>>>>)
      [] n = "b" /\ v = One -> Package(<<<<"c", One>>>>)
      [] n = "b" /\ v = Two -> Package(<<<<"c", Two>>>>)
      [] n = "c" /\ v = One -> Package(<<>>)
      [] n = "c" /\ v = Two -> Package(<<>>)
      [] OTHER -> Unpublished]]
Just(n, v, c) == [Empty EXCEPT ![n][v] = c]
World(initialised, n, cli, project, user) ==
  [remote |-> ProjectRemote, project |-> initialised, budget |-> n,
   disk |-> [d \in {"cli", "project", "user"} |->
               IF d = "cli" THEN cli ELSE IF d = "user" THEN user ELSE project]]
ProjectWorlds ==
  {World(FALSE, 2, Empty, Empty, Empty),
   World(TRUE, 4, Empty, Empty, Empty),
   World(TRUE, 3, Just("b", One, "edited"), Just("c", Two, "good"), Just("c", One, "good")),
   World(TRUE, 3, Just("c", Two, "good"), Empty, Just("b", Two, "partial"))}

\* The unlocked import of a package with an undeclared import.
Undeclared ==
  [ProjectRemote EXCEPT !["c"][Two] = [published |-> TRUE, deps |-> <<>>, imports |-> <<"a">>]]
MCWorlds ==
  LocalWorlds \cup ProjectWorlds
  \cup {[remote |-> Undeclared, project |-> FALSE, budget |-> 1,
         disk |-> [d \in {"cli", "project", "user"} |-> IF d = "user" THEN Everything(Undeclared) ELSE Empty]]}
MCImports == {<<"a">>, <<"a", "b">>, <<"b", "a">>, <<"c", "a">>}
MCEdits == {[n \in MCNames |-> IF n = "c" THEN Two ELSE <<>>]}

\* The parser of versions accepts exactly the grammar of SemVer: all short
\* texts of digits and dots, and everything short that follows 1.0.0.
TextsOver(chars, n) == UNION {[1 .. k -> chars] : k \in 0 .. n}
Tails(n) == TextsOver({48, 49, 97, Dot, Dash, Plus}, n)
ASSUME ParsesSemVer ==
  \A t \in TextsOver({48, 49, Dot}, 6) \cup {<<49, 46, 48, 46, 48>> \o u : u \in Tails(4)} :
    parseVersion(t).ok = IsSemVer(t)

\* Versions are ordered by precedence: a total order of what build metadata
\* leaves apart, with a release after all of its prereleases.
Ordered == {v \in {parseVersion(<<49, 46, 48, 46, 48>> \o u) : u \in Tails(3)} : v.ok}
Less(a, b) == compareVersion(a, b) = -1
ASSUME OrdersSemVer ==
  /\ \A a, b \in Ordered :
       /\ compareVersion(a, b) = -compareVersion(b, a)
       /\ compareVersion(a, b) = 0 <=> a.prerelease = b.prerelease
       /\ a.prerelease # <<>> /\ b.prerelease = <<>> => Less(a, b)
  /\ \A a, b, c \in Ordered : Less(a, b) /\ Less(b, c) => Less(a, c)
=============================================================================
