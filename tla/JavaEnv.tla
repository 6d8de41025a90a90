------------------------------- MODULE JavaEnv -------------------------------
(***************************************************************************)
(* `shimkit java': installing, switching and uninstalling versions, and    *)
(* the block of lines each installed version has in the shell's rc file    *)
(* (tools/java/manager.py, installer.py, brew.py, core/shell.py).  The rc  *)
(* file is a sequence of lines: the user's, blank ones, and those of the   *)
(* blocks.  Any access to it may fail.                                     *)
(***************************************************************************)
EXTENDS CliRun, SequencesExt

CONSTANTS
    Versions,     \* major versions of OpenJDK
    OwnLines,     \* lines of the user
    Quotes,       \* which of them have the marker of which version somewhere in them
    MaxRc         \* bound on the lines of the rc file that hand edits make

ASSUME JavaBoundsAssumption == MaxRc \in Nat /\ Quotes \subseteq OwnLines \X Versions

VARIABLES
    rc,         \* the rc file
    pkgs,       \* versions that brew has installed
    jvm,        \* versions linked under /Library/Java/JavaVirtualMachines
    active,     \* the version `brew link --force' linked last, or None
    mayLink,    \* whether this is macOS, with root or sudo to be had
    rcWell      \* history: no access to the rc file has failed

java == <<rc, pkgs, jvm, active, mayLink, rcWell>>

Blank == <<"blank", None>>
Own(u) == <<"own", u>>
Marker(v) == <<"marker", v>>
Block(v) == <<Blank, Marker(v), <<"path", v>>, <<"home", v>> >>

RcLine ==
    {Blank} \cup ({"own"} \X OwnLines) \cup ({"marker", "path", "home"} \X Versions)

JavaStart ==
    /\ rc \in {<<>>} \cup (IF group = "java" THEN {<<Own(u)>> : u \in OwnLines} ELSE {})
    /\ pkgs = {}
    /\ jvm = {}
    /\ active = None
    /\ mayLink \in IF group = "java" THEN BOOLEAN ELSE {FALSE}
    /\ rcWell = TRUE
-----------------------------------------------------------------------------
\* _has_marker looks for the marker anywhere in the text.
HasMarker(v) ==
    \E i \in DOMAIN rc : rc[i] = Marker(v) \/ \E u \in OwnLines : rc[i] = Own(u) /\ <<u, v>> \in Quotes

\* An access to the rc file fails.
RcFails == rcWell' = FALSE /\ UNCHANGED <<rc, pkgs, jvm, active, mayLink>>

AskJava ==
    /\ \E c \in {"install", "reinstall", "uninstall", "upgrade", "switch"}, v \in Versions :
        Ask("java", [cmd |-> c, version |-> v, dry |-> FALSE],
            IF c = "uninstall" THEN "unlink" ELSE "brew")
    /\ UNCHANGED java

\* brew install and reinstall, upgrade and link, any of which may fail.
Brew ==
    /\ at = "brew"
    /\ \/ /\ req.cmd \in {"install", "reinstall"}
          /\ pkgs' = pkgs \cup {req.version}
          /\ Goto("link")
          /\ UNCHANGED active
       \/ /\ req.cmd = "upgrade"
          /\ req.version \in pkgs
          /\ Goto("link")
          /\ UNCHANGED <<pkgs, active>>
       \/ /\ req.cmd = "switch"
          /\ req.version \in pkgs
          /\ active' = req.version
          /\ Exit("ok")
          /\ UNCHANGED pkgs
       \/ Exit("fail") /\ UNCHANGED <<pkgs, active>>
    /\ UNCHANGED <<rc, jvm, mayLink, rcWell>>

\* _link; nobody looks at the result of ln.
Link ==
    /\ at = "link"
    /\ \/ mayLink /\ jvm' = jvm \cup {req.version}
       \/ UNCHANGED jvm
    /\ IF req.cmd = "upgrade" THEN Exit("ok") ELSE Goto("marker")
    /\ UNCHANGED <<rc, pkgs, active, mayLink, rcWell>>

\* Mutant: a marker of any version will do.
WritesFirst(v) == ~\E w \in Versions : HasMarker(w)

\* Mutant: the block is written whether or not the marker is there.
AlwaysWrites(v) == TRUE

Writes(v) == ~HasMarker(v)

\* What cannot be read has no marker.
CheckMarker ==
    /\ at = "marker"
    /\ \/ /\ IF Writes(req.version) THEN Goto("append") ELSE Exit("ok")
          /\ UNCHANGED java
       \/ Goto("append") /\ RcFails

AppendBlock ==
    /\ at = "append"
    /\ \/ /\ rc' = rc \o Block(req.version)
          /\ Exit("ok")
          /\ UNCHANGED <<pkgs, jvm, active, mayLink, rcWell>>
       \/ Exit("exception") /\ RcFails

\* _unlink; nobody looks at the result of rm.
Unlink ==
    /\ at = "unlink"
    /\ \/ mayLink /\ jvm' = jvm \ {req.version}
       \/ UNCHANGED jvm
    /\ Goto("uninstall")
    /\ UNCHANGED <<rc, pkgs, active, mayLink, rcWell>>

\* brew refuses to uninstall what it has not installed.
BrewUninstall ==
    /\ at = "uninstall"
    /\ \/ /\ req.version \in pkgs
          /\ pkgs' = pkgs \ {req.version}
          /\ active' = IF active = req.version THEN None ELSE active
          /\ Goto("read_rc")
       \/ Exit("fail") /\ UNCHANGED <<pkgs, active>>
    /\ UNCHANGED <<rc, jvm, mayLink, rcWell>>

\* Mutant: one line too many is skipped after the marker.
ThreeLines == 3

BlockLines == 2

\* One turn of the loop of remove_java_env: the marker goes with the lines after
\* it, whatever they are, and with a blank line before it.
StripLine(s, l, v) ==
    IF s.skip > 0 THEN [s EXCEPT !.skip = @ - 1]
    ELSE IF l = Marker(v)
    THEN [out |-> IF s.out # <<>> /\ Last(s.out) = Blank THEN Front(s.out) ELSE s.out,
          skip |-> BlockLines]
    ELSE [s EXCEPT !.out = Append(@, l)]

Strip(text, v) ==
    FoldLeft(LAMBDA s, l : StripLine(s, l, v), [out |-> <<>>, skip |-> 0], text).out

\* Whatever becomes of the rc file, the uninstall has succeeded.
ReadRc ==
    /\ at = "read_rc"
    /\ \/ /\ IF HasMarker(req.version) THEN Remember("truncate_rc", rc) ELSE Exit("ok")
          /\ UNCHANGED java
       \/ Exit("ok") /\ RcFails

\* write_text empties the file before it writes it.
TruncateRc ==
    /\ at = "truncate_rc"
    /\ \/ /\ rc' = <<>>
          /\ Goto("write_rc")
          /\ UNCHANGED <<pkgs, jvm, active, mayLink, rcWell>>
       \/ Exit("ok") /\ RcFails

WriteRc ==
    /\ at = "write_rc"
    /\ \/ /\ rc' = Strip(mem, req.version)
          /\ Exit("ok")
          /\ UNCHANGED <<pkgs, jvm, active, mayLink, rcWell>>
       \/ Exit("ok") /\ RcFails

\* The user adds a line, or deletes any.
EditsRc ==
    /\ group = "java"
    /\ Outside
    /\ \/ Len(rc) < MaxRc /\ \E u \in OwnLines : rc' = Append(rc, Own(u))
       \/ \E i \in DOMAIN rc : rc' = RemoveAt(rc, i)
    /\ UNCHANGED <<pkgs, jvm, active, mayLink, rcWell>>

JavaStep ==
    \/ Brew \/ Link \/ CheckMarker \/ AppendBlock
    \/ Unlink \/ BrewUninstall \/ ReadRc \/ TruncateRc \/ WriteRc

JavaKill == group = "java" /\ Killed /\ UNCHANGED java

JavaNext == AskJava \/ JavaStep \/ JavaKill \/ EditsRc

JavaVars == <<proc, java>>

JavaInit == CliInit /\ group = "java" /\ JavaStart

JavaSpec == JavaInit /\ [][JavaNext]_JavaVars
-----------------------------------------------------------------------------
JavaTypeOK ==
    /\ rc \in Seq(RcLine)
    /\ pkgs \subseteq Versions
    /\ jvm \subseteq Versions
    /\ active \in Versions \cup {None}
    /\ mayLink \in BOOLEAN
    /\ rcWell \in BOOLEAN

\* The marker of v is a line of the text, and not only quoted in one.
HasLine(text, v) == \E i \in DOMAIN text : text[i] = Marker(v)

\* Every marker of v in the text is followed by the two lines it came with.
WholeBlocks(text, v) ==
    \A i \in DOMAIN text : text[i] = Marker(v) =>
        /\ i + 2 \in DOMAIN text
        /\ text[i + 1] = <<"path", v>> /\ text[i + 2] = <<"home", v>>

\* The lines of the text that are neither blank nor of version v.
Others(text, v) ==
    FoldLeft(LAMBDA out, l : IF l[1] # "blank" /\ l[2] # v THEN Append(out, l) ELSE out,
             <<>>, text)

\* "Remove the ... rc-file block" (docs/tools/java.md): an undisturbed
\* uninstall has removed the package.  As long as no access to the rc file has
\* failed, it has also removed the marker of a block that nobody cut, with its
\* lines, and no line of the user's, nor of another version.
UninstallTakesItsBlock ==
    \A s \in Ended("uninstall", "ok") :
        LET v == s.req.version
        IN  /\ v \notin pkgs
            /\ rcWell =>
                /\ ~HasLine(rc, v)
                /\ s.mem # Nothing /\ WholeBlocks(s.mem, v) => Others(rc, v) = Others(s.mem, v)

\* "The rc-file marker prevents duplicate exports" (docs/tools/java.md): in
\* whatever order versions are installed, uninstalled and killed, and whatever
\* the user does to the file, no version has two blocks, as long as the file
\* could be read and written.
OneBlockEach ==
    rcWell => \A i, j \in DOMAIN rc : i # j /\ rc[i][1] = "marker" => rc[i] # rc[j]

\* An undisturbed install that reports success leaves the package, and a marker
\* in the rc file: that of its block, or one that the user quotes.
InstalledHasBlock ==
    \A s \in Ended("install", "ok") \cup Ended("reinstall", "ok") :
        s.req.version \in pkgs /\ HasMarker(s.req.version)

\* The blocks of the rc file go with the packages: an undisturbed install has
\* left the package and its marker; and as long as no access to the rc file has
\* failed, an undisturbed uninstall took its own block and no other line, and in
\* whatever order versions are installed, uninstalled and killed, and whatever
\* the user does to the file, none has two.
BlocksFollow == InstalledHasBlock /\ UninstallTakesItsBlock /\ OneBlockEach
==============================================================================
