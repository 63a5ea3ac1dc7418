--------------------------- MODULE UserDictionary ---------------------------
(***************************************************************************)
(* The user dictionary on disk (R/dictionary.R): the directory an R        *)
(* session makes of HANNLP_USER_DATA_DIR, its kE/dic_user.txt and its      *)
(* backup/dic_user.txt, and the exported functions that write them.        *)
(*                                                                         *)
(* A call is a sequence of steps, each of which may stop it (R's stop) or  *)
(* be the last one the session performs (Crash: R is killed or the user    *)
(* interrupts it).  A file is written in two steps: it is opened, which    *)
(* empties it, and then it is complete, or writing it has failed; between  *)
(* the two, and after a failure, it holds some of the rows.  A dictionary  *)
(* is the set of its rows.                                                 *)
(***************************************************************************)
EXTENDS Naturals, Sequences

CONSTANTS
  Missing,      \* a file that is not there
  Bundled,      \* the rows of the package's dic_user.txt
  External,     \* what an external dictionary may hold: a set of sets of rows
  Users,        \* what the caller may pass as user_dic, the same; {} for nothing
  MaxCalls      \* calls and crashes in a behaviour

Rows == Bundled \cup UNION External \cup UNION Users
Files == {Missing} \cup SUBSET Rows

ASSUME DictionaryAssumption ==
  /\ \A f \in SUBSET Rows : Missing # f
  /\ {} \in Users
  /\ MaxCalls \in Nat

VARIABLES
  configured,   \* HANNLP_USER_DATA_DIR is set
  dir,          \* the directory: "none", "partial" or "full"
  dic, backup,  \* the two files
  call, todo,   \* the call, and the steps it has left
  writes,       \* the rows it is going to write
  outcome,      \* how the last call ended: "running" if it has not
  before,       \* dic as the call found it
  saved, trust, \* what the last backup was taken of, and how far it has got
  calls         \* the number of the call

vars == <<configured, dir, dic, backup, call, todo, writes, outcome, before, saved, trust, calls>>

-----------------------------------------------------------------------------
(* The calls: the steps each takes, the rows it is given, and whether it is *)
(* to append them to the dictionary and to take a backup first.             *)

Saving(asked) == IF asked THEN <<"init", "save">> ELSE <<>>

BackupUsrDic == [steps |-> Saving(TRUE), rows |-> {}, append |-> FALSE, saves |-> TRUE]
RestoreUsrDic == [steps |-> <<"present", "init", "restore">>, rows |-> {},
                  append |-> FALSE, saves |-> FALSE]

\* Mutant of Merging: the rows are checked last.
MergingCheckedLate(append) ==
  (IF append THEN <<"init", "read">> ELSE <<>>) \o <<"init", "write", "check">>

\* What mergeUserDic does after its backup.
Merging(append) ==
  <<"check">> \o (IF append THEN <<"init", "read">> ELSE <<>>) \o <<"init", "write">>

MergeUserDic(rows, append, ask) ==
  [steps |-> Saving(ask) \o Merging(append), rows |-> rows, append |-> append, saves |-> ask]

\* buildDictionary, after a backup if the function that calls it takes one.
\* Rows from outside are collected and checked first; without any the
\* dictionary is emptied or, where it is not to be replaced, only read.
BuildDictionary(fetch, ext, user, replace, save) ==
  [steps  |-> Saving(save) \o (IF fetch THEN <<"collect">> ELSE <<>>)
                \o (IF user # {} THEN <<"check">> ELSE <<>>)
                \o (IF ext \cup user # {} THEN Merging(~replace)
                    ELSE IF replace THEN <<"init", "write">> ELSE <<"look">>),
   rows   |-> ext \cup user,
   append |-> ~replace,
   saves  |-> save]

\* buildDictionary as its callers use it: without external dictionaries, or
\* with the rows of those it is given, and no backup.
BuildOfUser(user, replace) == BuildDictionary(FALSE, {}, user, replace, FALSE)
BuildOfExternal(ext, user, replace) == BuildDictionary(TRUE, ext, user, replace, FALSE)

\* useSejongDic and useNIADic
UseExternal(ext, save) == BuildDictionary(TRUE, ext, {}, TRUE, save)

\* Mutant of UseSystemDic: the backup is taken after the dictionary is replaced.
UseSystemDicSavingLate(save) ==
  [steps |-> <<"init", "write">> \o Saving(save), rows |-> Bundled,
   append |-> FALSE, saves |-> save]
UseSystemDic(save) ==
  [steps |-> Saving(save) \o <<"init", "write">>, rows |-> Bundled,
   append |-> FALSE, saves |-> save]

Calls ==
  {BackupUsrDic, RestoreUsrDic}
    \cup { MergeUserDic(u, append, ask) : u \in Users \ {{}}, append, ask \in BOOLEAN }
    \cup { BuildOfUser(u, replace) : u \in Users, replace \in BOOLEAN }
    \cup { BuildOfExternal(e, u, replace) : e \in External, u \in Users, replace \in BOOLEAN }
    \cup { UseExternal(e, save) : e \in External, save \in BOOLEAN }
    \cup { UseSystemDic(save) : save \in BOOLEAN }

-----------------------------------------------------------------------------
At(step) == todo # <<>> /\ Head(todo) = step

\* The call goes on with the steps `rest`, or is over.
Go(rest) == todo' = rest /\ outcome' = IF rest = <<>> THEN "returned" ELSE "running"
Stop == todo' = <<>> /\ outcome' = "stopped"

Init ==
  /\ configured \in BOOLEAN
  /\ dir = "none" /\ dic = Missing /\ backup = Missing
  /\ call = BackupUsrDic /\ todo = <<>> /\ writes = {} /\ outcome = "none"
  /\ before = Missing /\ saved = Missing /\ trust = "none" /\ calls = 0

Begin(c) ==
  /\ todo = <<>> /\ calls < MaxCalls
  /\ call' = c /\ todo' = c.steps /\ writes' = c.rows /\ outcome' = "running"
  /\ before' = dic /\ calls' = calls + 1
  /\ UNCHANGED <<configured, dir, dic, backup, saved, trust>>

\* What a call asks of its arguments and of what it reads, and nothing else:
\* the rows of the external dictionaries (which may not be installed), the
\* tags of the new rows, the backup to restore, the dictionary to report.
Validate ==
  /\ \/ At("collect") /\ (Go(Tail(todo)) \/ Stop)
     \/ At("check") /\ (Go(Tail(todo)) \/ Stop)
     \/ At("present") /\ IF configured /\ backup # Missing THEN Go(Tail(todo)) ELSE Stop
     \/ At("look") /\ CASE dir = "none" -> Go(Tail(todo))
                      [] dir # "none" /\ dic = Missing -> Stop
                      [] OTHER -> Go(Tail(todo)) \/ (dic # {} /\ Stop)
  /\ UNCHANGED <<configured, dir, dic, backup, writes, before, saved, trust, call, calls>>

\* .hannlp_user_data_dir(create = TRUE): the directory is made and filled
\* with the package's data, unless there already is one, complete or not;
\* the call stops where it cannot be made.
InitDirectory ==
  /\ At("init")
  /\ IF ~configured THEN Stop /\ UNCHANGED <<dir, dic>>
     ELSE IF dir # "none" THEN Go(Tail(todo)) /\ UNCHANGED <<dir, dic>>
     ELSE \/ Stop /\ UNCHANGED <<dir, dic>>
          \/ /\ dir' = "partial"
             /\ dic' \in {Missing} \cup SUBSET Bundled
             /\ Go(<<"fill">> \o Tail(todo))
  /\ UNCHANGED <<configured, backup, writes, before, saved, trust, call, calls>>

FillDirectory ==
  /\ At("fill")
  /\ \/ dir' = "full" /\ dic' = Bundled /\ Go(Tail(todo))
     \/ Stop /\ UNCHANGED <<dir, dic>>
  /\ UNCHANGED <<configured, backup, writes, before, saved, trust, call, calls>>

\* backupUsrDic copies the file.  Where it cannot, it warns, and the function
\* that called it does not look at what it returns.
OpenBackup ==
  /\ At("save")
  /\ \/ /\ dic # Missing
        /\ backup' \in SUBSET dic
        /\ saved' = dic /\ trust' = "copying"
        /\ Go(<<"saving">> \o Tail(todo))
     \/ Go(Tail(todo)) /\ trust' = "failed" /\ UNCHANGED <<backup, saved>>
  /\ UNCHANGED <<configured, dir, dic, writes, before, call, calls>>

\* Mutant of CloseBackup: it is the package's dictionary that is copied.
CloseBackupOfPackage ==
  /\ At("saving")
  /\ backup' = Bundled /\ trust' = "saved"
  /\ Go(Tail(todo))
  /\ UNCHANGED <<configured, dir, dic, writes, before, saved, call, calls>>

CloseBackup ==
  /\ At("saving")
  /\ \/ backup' = dic /\ trust' = "saved"
     \/ trust' = "failed" /\ UNCHANGED backup
  /\ Go(Tail(todo))
  /\ UNCHANGED <<configured, dir, dic, writes, before, saved, call, calls>>

\* restoreUsrDic copies it back, or warns and returns FALSE.
OpenRestore ==
  /\ At("restore")
  /\ \/ dic' \in SUBSET backup /\ Go(<<"restoring">>)
     \/ todo' = <<>> /\ outcome' = "warned" /\ UNCHANGED dic
  /\ UNCHANGED <<configured, dir, backup, writes, before, saved, trust, call, calls>>

CloseRestore ==
  /\ At("restoring")
  /\ \/ dic' = backup /\ outcome' = "restored"
     \/ outcome' = "warned" /\ UNCHANGED dic
  /\ todo' = <<>>
  /\ UNCHANGED <<configured, dir, backup, writes, before, saved, trust, call, calls>>

\* mergeUserDic reads the rows it appends to, none where there is no file;
\* a file that is not a dictionary stops it.
ReadOld ==
  /\ At("read")
  /\ \/ Go(Tail(todo)) /\ writes' = writes \cup (IF dic = Missing THEN {} ELSE dic)
     \/ dic \notin {Missing, {}} /\ Stop /\ UNCHANGED writes
  /\ UNCHANGED <<configured, dir, dic, backup, before, saved, trust, call, calls>>

\* .hannlp_write_user_dic opens the file, which may not be possible; nobody
\* looks at what file.create returns for a dictionary without rows.
OpenWrite ==
  /\ At("write")
  /\ \/ dic' \in SUBSET writes /\ Go(<<"writing">> \o Tail(todo))
     \/ writes # {} /\ Stop /\ UNCHANGED dic
     \/ writes = {} /\ Go(Tail(todo)) /\ UNCHANGED dic
  /\ UNCHANGED <<configured, dir, backup, writes, before, saved, trust, call, calls>>

\* The file is complete, or write.table stops in the middle of the rows (the
\* disk is full, a row cannot be encoded): that error leaves what it has written.
CloseWrite ==
  /\ At("writing")
  /\ \/ dic' = writes /\ Go(Tail(todo))
     \/ /\ writes # {}
        /\ todo' = <<>> /\ outcome' = "write failed" /\ UNCHANGED dic
  /\ UNCHANGED <<configured, dir, backup, writes, before, saved, trust, call, calls>>

\* The session ends between two steps.
Crash ==
  /\ todo # <<>>
  /\ todo' = <<>> /\ outcome' = "crashed"
  /\ trust' = IF trust = "copying" THEN "failed" ELSE trust
  /\ UNCHANGED <<configured, dir, dic, backup, writes, before, saved, call, calls>>

Next ==
  \/ \E c \in Calls : Begin(c)
  \/ Validate \/ InitDirectory \/ FillDirectory
  \/ OpenBackup \/ CloseBackup \/ OpenRestore \/ CloseRestore
  \/ ReadOld \/ OpenWrite \/ CloseWrite
  \/ Crash

Spec == Init /\ [][Next]_vars

-----------------------------------------------------------------------------
(* Properties *)

\* Whatever the arguments, the external dictionaries or the file to append to
\* have wrong is found out before dic_user.txt is opened: an error that says so
\* leaves the dictionary as the call found it.  Only an error in the middle of
\* the rows does not; what it leaves are some of the rows the call was to write,
\* of those that were there only where it appends.  A call that returns
\* has written the rows it was given, over what was there, or with all of it
\* where it appends, also if that is what a crash or a failed write has left.
AllOrNothing ==
  /\ outcome = "stopped" /\ before # Missing => dic = before
  /\ outcome = "write failed" =>
       dic \subseteq call.rows \cup (IF ~call.append THEN {}
                                    ELSE IF before # Missing THEN before ELSE Bundled)
  /\ outcome = "returned" /\ call.rows # {} =>
       IF ~call.append THEN dic = call.rows
       ELSE IF before # Missing THEN dic = before \cup call.rows
       ELSE call.rows \subseteq dic /\ dic \subseteq call.rows \cup Bundled

\* A call that takes a backup never holds the user's dictionary only in a
\* file it is writing: in the call, and also if the write fails or the session
\* dies in it, the dictionary it found is in dic_user.txt or in the backup,
\* unless the copy could not be made (nobody looks) or was cut off.
OldOrBackup ==
  call.saves /\ trust # "failed" /\ before # Missing => before \in {dic, backup}

\* Restoring brings back, through whatever calls and crashes came between,
\* the dictionary the last backup was taken of, if that backup is complete.
RestoreBringsBack ==
  [][outcome' = "restored" /\ trust = "saved" => dic' = saved]_vars

=============================================================================
