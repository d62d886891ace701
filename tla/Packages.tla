------------------------------ MODULE Packages ------------------------------
(***************************************************************************)
(* pip and npm: what may be asked of them, where what they install goes,   *)
(* and where a later command looks for it.  A specifier is the package it  *)
(* names, NoName if it is empty, whether it begins with a dash, and        *)
(* whether all its characters are among the safe ones.                     *)
(***************************************************************************)
EXTENDS Fetch

PackageManager == {"pip", "npm"}

InstallDir(pm) == <<Plain(<<".packages">>, ""), Plain(<<pm>>, "")>>

ValidateSpec(spec) == spec.package /= NoName /\ ~spec.dash /\ spec.safe

\* Any name but those of the package managers is refused.
MayInstall(name, specs) ==
  /\ name \in PackageManager
  /\ specs /= {} /\ \A spec \in specs : ValidateSpec(spec)

\* The installer is told a directory: pip puts the packages right there, npm into
\* node_modules, beside a file that lists them.
NodeModules == Plain(<<"node_modules">>, "")
PackageJson == Plain(<<"package">>, "json")
Package == [kind |-> "package"]
InstallArgv(pm, specs) ==
  LET packages == {spec.package : spec \in specs}
  IN  IF pm = "pip" THEN [path \in {<<p>> : p \in packages} |-> Package]
      ELSE [path \in {<<NodeModules, p>> : p \in packages} \cup {<<PackageJson>>} |->
              IF path = <<PackageJson>> THEN [kind |-> "list"] ELSE Package]

\* What the install adds to the checkpoint.
Installed(pm, specs) ==
  LET found == InstallArgv(pm, specs)
  IN  [key \in {InstallDir(pm) \o path : path \in DOMAIN found} |->
         found[SubSeq(key, Len(InstallDir(pm)) + 1, Len(key))]]

\* PYTHONPATH and NODE_PATH of every command.
SearchPath(pm) ==
  IF pm = "npm" THEN Append(InstallDir(pm), NodeModules) ELSE InstallDir(pm)
WorkspaceEnvVars(workspace) == {workspace \o SearchPath(pm) : pm \in PackageManager}
=============================================================================
