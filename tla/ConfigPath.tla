------------------------------ MODULE ConfigPath ------------------------------
(***************************************************************************)
(* How config.Init chooses its file (src/config/path.go):                 *)
(* GetConfigYmlFile(FindConfDir("conf")).  FindConfDir tries "conf",      *)
(* "../conf", "../../conf", ... and returns the first that is a           *)
(* directory, giving up with "" once the depth passes maxSearchDepth.     *)
(* GetConfigYmlFile turns each layer name "x.yml" into "x_local.yml",     *)
(* appends "ci.yml" in the CI environment, and returns the last of them   *)
(* that exists in the directory, or an error when none does.  The         *)
(* directory "" makes filepath.Join give the bare name, a file of the     *)
(* working directory.                                                     *)
(*                                                                         *)
(* A directory is the number of "../" in front of "conf", or NoDir for "".*)
(* The file system is a state: where "conf" directories are, which layer  *)
(* files the conf directory found holds, which the working directory      *)
(* holds, and whether SUB_ENV is "ci".                                    *)
(***************************************************************************)
EXTENDS Integers, Sequences, SequencesExt

CONSTANTS
    Heights,         \* how many levels up a "conf" directory may be
    MaxSearchDepth,  \* maxSearchDepth in FindConfDir
    NoDir            \* the directory ""

\* The layer names of GetConfigYmlFile, without ".yml".
Layers == <<"base", "boe", "boe.unknown_env", "boe.unknown_env.default">>

\* strings.TrimSuffix(path, ".yml") + tenantSuffix + ".yml", for the
\* "local" tenant.
LocalName(layer) == [stem |-> layer, tenant |-> "_local"]

CiName == [stem |-> "ci", tenant |-> ""]

FileNames == {LocalName(Layers[i]) : i \in DOMAIN Layers} \cup {CiName}

VARIABLES
    confDirs,  \* the heights at which a "conf" directory exists
    confFiles, \* the files in the conf directory found
    cwdFiles,  \* the files in the working directory
    ci,        \* IsCIEnv()
    dir,       \* what FindConfDir returned
    file,      \* what GetConfigYmlFile returned: a name, or NoDir for the error
    pc         \* "start" before Init's lookup, "done" after it

vars == <<confDirs, confFiles, cwdFiles, ci, dir, file, pc>>

\* utils.IsDir on "../" repeated depth times, then "conf".
IsDir(dirs, depth) == depth \in dirs

RECURSIVE FindConfDir(_, _)

\* Mutant: the depth check off by one (depth >= maxSearchDepth).
FindConfDirShort(dirs, depth) ==
    IF depth >= MaxSearchDepth THEN NoDir
    ELSE IF IsDir(dirs, depth) THEN depth
    ELSE FindConfDir(dirs, depth + 1)

\* Mutant: the directory tested before the depth bound.
FindConfDirBoundLate(dirs, depth) ==
    IF IsDir(dirs, depth) THEN depth
    ELSE IF depth > MaxSearchDepth THEN NoDir
    ELSE FindConfDir(dirs, depth + 1)

\* FindConfDir(confDir, depth): give up past maxSearchDepth, return a
\* directory that exists, or try one level up.
FindConfDir(dirs, depth) ==
    IF depth > MaxSearchDepth THEN NoDir
    ELSE IF IsDir(dirs, depth) THEN depth
    ELSE FindConfDir(dirs, depth + 1)

\* The names GetConfigYmlFile tries, in order.
NewPaths(isCI) ==
    [i \in DOMAIN Layers |-> LocalName(Layers[i])] \o (IF isCI THEN <<CiName>> ELSE <<>>)

\* utils.FileExist(filepath.Join(d, name)).
FileExist(d, name, inConf, inCwd) == IF d = NoDir THEN name \in inCwd ELSE name \in inConf

\* Mutant: the loop stops at the first file that exists.
FirstExisting(d, isCI, inConf, inCwd) ==
    LET found == SelectSeq(NewPaths(isCI), LAMBDA p : FileExist(d, p, inConf, inCwd))
    IN  IF found = <<>> THEN NoDir ELSE Head(found)

\* The loop over newPaths: a file that exists replaces the one before;
\* "" at the end is the error.
GetConfigYmlFile(d, isCI, inConf, inCwd) ==
    FoldLeft(LAMBDA cf, p : IF FileExist(d, p, inConf, inCwd) THEN p ELSE cf,
             NoDir, NewPaths(isCI))

\* Init's lookup: GetConfigYmlFile(FindConfDir(FolderCnf)).
Lookup ==
    /\ pc = "start"
    /\ dir' = FindConfDir(confDirs, 0)
    /\ file' = GetConfigYmlFile(FindConfDir(confDirs, 0), ci, confFiles, cwdFiles)
    /\ pc' = "done"
    /\ UNCHANGED <<confDirs, confFiles, cwdFiles, ci>>

\* The file system or the environment changes: a "conf" directory or a
\* file appears or goes, or SUB_ENV is set or cleared; a later Init looks
\* again.
Toggle(S, x) == IF x \in S THEN S \ {x} ELSE S \cup {x}

ChangeFS ==
    /\ \/ \E h \in Heights : confDirs' = Toggle(confDirs, h) /\ UNCHANGED <<confFiles, cwdFiles, ci>>
       \/ \E f \in FileNames : confFiles' = Toggle(confFiles, f) /\ UNCHANGED <<confDirs, cwdFiles, ci>>
       \/ \E f \in FileNames : cwdFiles' = Toggle(cwdFiles, f) /\ UNCHANGED <<confDirs, confFiles, ci>>
       \/ ci' = ~ci /\ UNCHANGED <<confDirs, confFiles, cwdFiles>>
    /\ pc' = "start"
    /\ UNCHANGED <<dir, file>>

Init ==
    /\ confDirs = {} /\ confFiles = {} /\ cwdFiles = {} /\ ci = FALSE
    /\ dir = NoDir /\ file = NoDir
    /\ pc = "start"

Next == Lookup \/ ChangeFS

Spec == Init /\ [][Next]_vars

-----------------------------------------------------------------------------
TypeOK ==
    /\ dir \in (0..MaxSearchDepth) \cup {NoDir}
    /\ file \in FileNames \cup {NoDir}

\* The nearest "conf" directory no more than maxSearchDepth levels up.
NearestConf ==
    LET reach == confDirs \cap 0..MaxSearchDepth
    IN  IF reach = {} THEN NoDir ELSE Min(reach)

\* The most specific layer file that exists in d: ci.yml in CI, then the
\* later layers before the earlier ones.
MostSpecific(d) ==
    LET names == NewPaths(ci)
        there == {i \in DOMAIN names : FileExist(d, names[i], confFiles, cwdFiles)}
    IN  IF there = {} THEN NoDir ELSE names[Max(there)]

\* Init reads the most specific layer of the nearest conf directory within
\* maxSearchDepth levels (of the working directory when there is none):
\* FindConfDir's recursion and its depth bound, and GetConfigYmlFile's loop
\* that lets a later file replace an earlier one, must agree on it.
ChosenFileIsMostSpecific ==
    pc = "done" => dir = NearestConf /\ file = MostSpecific(dir)
=============================================================================
