------------------------------- MODULE Preflight -------------------------------
(***************************************************************************)
(* The layered configuration and the check of tool versions with which a   *)
(* command starts (config/loader.py, core/version.py; `shimkit config' of  *)
(* cli.py).  A file of settings is a tree of dicts; of the levels above    *)
(* tools.versions, which are merged like the ones below, only the top one  *)
(* is kept.  A version is a number; suffixes such as rc1 are left out.     *)
(***************************************************************************)
EXTENDS CliRun

VARIABLES
    files,      \* the user's settings at each path: a dict, "garbled" or "absent"
    installed   \* each tool: whether its detector gets a version out of it, and which

settings == <<files, installed>>

Tools == {"docker", "php"}
\* The default path, and the one that $SHIMKIT_CONFIG names in some terminals.
Paths == {"home", "named"}
-----------------------------------------------------------------------------
(***************************************************************************)
(* Trees of settings.                                                      *)
(***************************************************************************)
Dict(f) == [kind |-> "dict", sub |-> f]
Leaf(x) == [kind |-> "leaf", val |-> x]

\* A bound as it is written: bare, with an operator, or not a specifier at all.
Bound(op, v) == Leaf([op |-> op, v |-> v])
Null == Leaf([op |-> "null", v |-> 0])

Bundled == [t \in Tools |-> Dict([min |-> Bound("bare", 2)])]

Template == [k \in {"$schema"} |-> Leaf([op |-> "text", v |-> 0])]

Docker(f) == [k \in {"docker"} |-> Dict(f)]

Absent == [is |-> "absent"]
Garbled == [is |-> "garbled"]

Shapes ==
    {Absent, Garbled} \cup
    {[is |-> "dict", top |-> d] : d \in
        {Template,
         Docker([max |-> Bound("<", 3)]),
         Docker([max |-> Bound("bare", 3)]),
         Docker([min |-> Bound("bare", 1), max |-> Null]),
         Docker([min |-> Null]),
         Docker([min |-> Bound("bad", 0)]),
         Docker([mim |-> Bound("bare", 1)]),
         [k \in {"docker"} |-> Null]}}

Conditions ==
    {[is |-> i, v |-> 0] : i \in {"missing", "mute", "odd"}} \cup
    {[is |-> "ok", v |-> v] : v \in 1..3}

PreflightStart ==
    /\ \E q \in Paths, f \in IF group = "preflight" THEN Shapes ELSE {Absent} :
        files = [p \in Paths |-> IF p = q THEN f ELSE Absent]
    /\ \E c \in IF group = "preflight" THEN Conditions ELSE {[is |-> "ok", v |-> 3]} :
        installed = [t \in Tools |-> IF t = "docker" THEN c ELSE [is |-> "ok", v |-> 1]]

\* _deep_merge where no dict is left to merge, as below tools.versions.<tool>.
Overlaid(base, over) ==
    [k \in DOMAIN base \cup DOMAIN over |-> IF k \in DOMAIN over THEN over[k] ELSE base[k]]

BothDicts(a, b) == a.kind = "dict" /\ b.kind = "dict"

\* _deep_merge: a dict of the user's is merged into the bundled one, anything
\* else replaces it.  The bundled tree has two levels.
DeepMerge(base, over) ==
    [k \in DOMAIN base \cup DOMAIN over |->
        IF k \in DOMAIN base \cap DOMAIN over /\ BothDicts(base[k], over[k])
        THEN Dict(Overlaid(base[k].sub, over[k].sub))
        ELSE Overlaid(base, over)[k]]

\* Mutant: a key of the user's replaces the bundled one, whatever is below it.
Replaced(base, over) == Overlaid(base, over)

Merged(base, over) == DeepMerge(base, over)

StripMeta(d) == [k \in DOMAIN d \ {"$schema"} |-> d[k]]

\* The schema: no unknown key, and text or nothing in each field.
ValidSettings(d) ==
    /\ DOMAIN d \subseteq Tools
    /\ \A t \in DOMAIN d :
        /\ d[t].kind = "dict"
        /\ DOMAIN d[t].sub \subseteq {"min", "max", "preferred"}
        /\ \A k \in DOMAIN d[t].sub : d[t].sub[k].kind = "leaf"

UserPath(r) == IF r.named THEN "named" ELSE "home"

\* What load makes of the user's file, if it does not raise ConfigError.
Loaded(f) ==
    IF f.is = "dict" THEN Merged(Bundled, StripMeta(f.top)) ELSE Bundled

Loads(f) == f # Garbled /\ ValidSettings(Loaded(f))
-----------------------------------------------------------------------------
(***************************************************************************)
(* Constraints.                                                            *)
(***************************************************************************)
\* VersionConstraint: the bounds with their operators, bare ones made explicit.
Normalised(b, op) == IF b.op = "bare" THEN [b EXCEPT !.op = op] ELSE b

Specifiers(c) ==
    {s \in {Normalised(c[k].val, IF k = "min" THEN ">=" ELSE "<=") :
            k \in DOMAIN c \cap {"min", "max"}} : s.op # "null"}

\* Whether v is in the range; with a bound that is no specifier nothing is.
Satisfies(v, s) ==
    CASE s.op = ">=" -> v >= s.v
      [] s.op = "<=" -> v <= s.v
      [] s.op = "<" -> v < s.v
      [] s.op = "bad" -> FALSE

InRange(v, c) == \A s \in Specifiers(c) : Satisfies(v, s)

\* validate.  A detector that prints nothing, as docker's when the daemon is
\* down, counts as missing.
Status(t, c) ==
    CASE t.is \in {"missing", "mute"} -> "missing"
      [] t.is = "odd" -> "unparseable"
      [] t.is = "ok" -> IF InRange(t.v, c) THEN "ok" ELSE "out of range"

Blocking(status, forced) == status = "missing" \/ (status = "out of range" /\ ~forced)
-----------------------------------------------------------------------------
(***************************************************************************)
(* The start of a command that needs a tool, and `shimkit config'.         *)
(***************************************************************************)
Wish(c, t, f, n) == [cmd |-> c, dry |-> FALSE, tool |-> t, force |-> f, named |-> n]

\* Only the commands that need docker have --force.
AskTool ==
    /\ \E t \in Tools, f, n \in BOOLEAN :
        /\ f => t = "docker"
        /\ Starts("preflight", Wish("work", t, f, n), "constrain")
    /\ UNCHANGED settings

AskConfig ==
    /\ \E c \in {"validate", "edit"}, n \in BOOLEAN :
        Starts("preflight", Wish(c, "none", FALSE, n), c)
    /\ UNCHANGED settings

\* get_config reads the file once; the run keeps what it read.
Constrain ==
    /\ at = "constrain"
    /\ LET f == files[UserPath(req)] IN
        IF Loads(f) THEN Remember("detect", Loaded(f)[req.tool].sub) ELSE Exit(1)
    /\ UNCHANGED settings

\* The rest of the command is not of this module.
Detect ==
    /\ at = "detect"
    /\ Exit(IF Blocking(Status(installed[req.tool], mem), req.force) THEN 69 ELSE 0)
    /\ UNCHANGED settings

ConfigValidate ==
    /\ at = "validate"
    /\ Exit(IF Loads(files[UserPath(req)]) THEN 0 ELSE 78)
    /\ UNCHANGED settings

\* The template is written into a file that was just made empty.
OpenTemplate ==
    /\ at = "edit"
    /\ files[UserPath(req)] = Absent
    /\ Goto("template")
    /\ files' = [files EXCEPT ![UserPath(req)] = Garbled]
    /\ UNCHANGED installed

WriteTemplate ==
    /\ at = "template"
    /\ Goto("editor")
    /\ files' = [files EXCEPT ![UserPath(req)] = [is |-> "dict", top |-> Template]]
    /\ UNCHANGED installed

EditExisting ==
    /\ at = "edit"
    /\ files[UserPath(req)] # Absent
    /\ Goto("editor")
    /\ UNCHANGED settings

CloseEditor ==
    /\ at = "editor"
    /\ \E f \in {files[UserPath(req)]} \cup Shapes :
        /\ f # Absent
        /\ files' = [files EXCEPT ![UserPath(req)] = f]
    /\ Exit(0)
    /\ UNCHANGED installed

UserEdits ==
    /\ group = "preflight"
    /\ Outside
    /\ \E p \in Paths, f \in Shapes : files' = [files EXCEPT ![p] = f]
    /\ UNCHANGED installed

\* A tool is installed, upgraded, removed, or its daemon goes.
ToolChanges ==
    /\ group = "preflight"
    /\ Outside
    /\ \E t \in Tools, c \in Conditions : installed' = [installed EXCEPT ![t] = c]
    /\ UNCHANGED files

KillPreflight == group = "preflight" /\ Killed /\ UNCHANGED settings

PreflightNext ==
    \/ AskTool \/ AskConfig \/ Constrain \/ Detect \/ ConfigValidate
    \/ OpenTemplate \/ WriteTemplate \/ EditExisting \/ CloseEditor
    \/ UserEdits \/ ToolChanges \/ KillPreflight
-----------------------------------------------------------------------------
(***************************************************************************)
(* Properties.                                                             *)
(***************************************************************************)
PreflightTypeOK ==
    /\ files \in [Paths -> Shapes]
    /\ installed \in [Tools -> Conditions]

\* The range of docs/installation.md: for each bound the user's, where the file
\* says something of it, and the bundled one where it does not.
Wanted(t, k, f) ==
    IF f.is = "dict" /\ t \in DOMAIN f.top /\ k \in DOMAIN f.top[t].sub
    THEN f.top[t].sub[k].val
    ELSE IF k = "min" THEN Bundled[t].sub.min.val ELSE Null.val

Fits(v, k, b) ==
    CASE b.op = "null" -> TRUE
      [] b.op = "bare" -> IF k = "min" THEN v >= b.v ELSE v <= b.v
      [] b.op = "<" -> v < b.v
      [] b.op = "bad" -> FALSE

\* A run that nobody disturbs goes on with a tool exactly if the tool answers
\* and its version, where one can be made out, is within each bound, the user's
\* or the bundled one, or the run was forced: setting one bound does not lift
\* the other, nor those of another tool, and nothing of the file at the default
\* path counts where $SHIMKIT_CONFIG names another.
RangeHonoured ==
    \A s \in Ended("work", 0) \cup Ended("work", 69) :
        LET t == installed[s.req.tool]
            f == files[UserPath(s.req)] IN
        s.exit = 0 <=>
            /\ t.is \notin {"missing", "mute"}
            /\ \/ t.is = "odd"
               \/ s.req.force
               \/ \A k \in {"min", "max"} : Fits(t.v, k, Wanted(s.req.tool, k, f))
==============================================================================
