------------------------------ MODULE MCBorder ------------------------------
(***************************************************************************)
(* An instance of Border: two projects on the host, both with an overlay   *)
(* called deps; three pages, two with a directory in common, one called as *)
(* the manifest is, with an asset called so too; a temporary directory of  *)
(* its own or /tmp; links that commands make to where nothing is mounted.  *)
(***************************************************************************)
EXTENDS Border

N(word) == Plain(<<word>>, "")

UpName == N("..")
Usr == <<N("usr")>>
Var == <<N("var")>>
Workspace == N("ws")
Staging == N("staging")
Scratch == N("scratch")
TmpDir == <<N("tmp")>>
Temps == {TmpDir, Var}
System == {Usr, <<N("opt")>>}

Proj == <<N("proj")>>
Other == <<N("other")>>
Deps == <<N("deps")>>
Main == <<N("main")>>
Lib == <<N("deps"), N("lib")>>
File(n) == [kind |-> "host", call |-> n]

Host0 ==
  (<<>> :> Dir) @@ (Usr :> Dir) @@ (Var :> Dir)
  @@ (Proj :> Dir) @@ (Proj \o Main :> File(1)) @@ (Proj \o Deps :> Dir) @@ (Proj \o Lib :> File(2))
  @@ (Other :> Dir) @@ (Other \o Deps :> Dir)

Paths == {Proj, Other, Proj \o Deps, Proj \o <<UpName>> \o Other}
Keys == {Main, Lib, <<UpName>> \o Main}
Overlay == {N("deps")}
Links == {<<Deps, Usr>>, <<Main, Usr \o Main>>, <<Main, Usr>>}

Org == <<"a", "org">>
Cdn == <<"cdn", "a", "org">>
Net == <<"net">>
Url(labels, last) == [host |-> labels, name |-> last]
Index == Plain(<<"p">>, "html")
Style == Plain(<<"p">>, "css")
El(kind, to) == [tag |-> kind, url |-> to]
Web ==
  { [url |-> Url(Org, Index), html |-> TRUE, pdf |-> FALSE,
     elements |-> <<El("img", Url(Cdn, Style)), El("other", Url(Net, Index)), El("script", NoUrl),
                    El("stylesheet", Url(Cdn, Index)), El("script", Url(Net, Style))>>],
    [url |-> Url(Org, Style), html |-> FALSE, pdf |-> TRUE, elements |-> <<>>],
    [url |-> Url(Org, Manifest), html |-> TRUE, pdf |-> FALSE,
     elements |-> <<El("img", Url(Cdn, Manifest)), El("img", Url(Cdn, Manifest)),
                    El("img", Url(Org, NoName))>>] }

Host_(labels) == [wild |-> FALSE, labels |-> labels]
Wild(labels) == [wild |-> TRUE, labels |-> labels]
Lists == {{Host_(Org), Wild(<<"org">>)}}
Allowed == {{Proj}, {Other, Var}}

Spec_(name, dash) == [package |-> name, dash |-> dash, safe |-> TRUE]
Asks ==
  { [manager |-> "npm", specs |-> {Spec_(N("six"), FALSE)}],
    [manager |-> "pip", specs |-> {Spec_(N("six"), FALSE)}],
    [manager |-> "pip", specs |-> {Spec_(N("six"), TRUE)}],
    [manager |-> "pip", specs |-> {}],
    [manager |-> "gem", specs |-> {Spec_(N("six"), FALSE)}] }

Command == {<<{"deny"}>>, <<{"run"}>>}
Deny == {"deny"}
Allow == {"run"}

Symmetry == Permutations(Fetchers)
=============================================================================
