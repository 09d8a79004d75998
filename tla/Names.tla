------------------------------- MODULE Names -------------------------------
(***************************************************************************)
(* How names travel through the program: from the directory or the user's  *)
(* command to the paths that are opened, to the server, into the text of   *)
(* its listing, and back out of it.  The string functions of the client,   *)
(* the server and the helpers (src/dropboxUtils.c) are operators on        *)
(* sequences of characters; uploads and downloads are one step each, as    *)
(* Client and FileTransfer show what goes on inside them.  A file's        *)
(* content is the name it was created under, which shows where a file that *)
(* is found under some name comes from.                                    *)
(*                                                                         *)
(* A transfer whose sender cannot open its file, or whose last packet is   *)
(* never sent, leaves the receiver waiting; what follows is Client's       *)
(* subject, and this model's device stops there.                           *)
(***************************************************************************)
EXTENDS Integers, Sequences, SequencesExt

CONSTANTS
    Characters, \* what names, commands and paths consist of
    Created,    \* names under which users create files
    Strandable, \* contents whose receiver may be left waiting for more
    Commands,   \* lines that the user may type
    MaxChanges  \* bound: files created or removed on either side, and commands

Has(n, c) == \E i \in DOMAIN n : n[i] = c

Space == " "

(* The name of a file is not empty and holds no slash.  The characters that *)
(* the program writes or looks for itself are among all the others.         *)
ASSUME NamesAssumption ==
    /\ {Space, "\n", "/", "~", "-", "C", ":", "h", "s"} \subseteq Characters
    /\ Created \subseteq Seq(Characters) \ {<<>>}
    /\ \A n \in Created : ~Has(n, "/")
    /\ Strandable \subseteq Created
    /\ Commands \subseteq Seq(Characters)
    /\ MaxChanges \in Nat

HOME == <<"/", "h">>
SYNC == <<"/", "s", "/">>    \* sync_dir_ and the user's name
SyncDir == HOME \o SYNC      \* which create_home_dir makes
Directories == {HOME \o <<"/">>, SyncDir}
Empty == <<>>                \* the content of a file that was only created

VARIABLES
    disk,     \* the device's files: absolute path -> content
    remote,   \* the user's directory on the server: name -> content
    sync,     \* sync_client's locals
    stuck,    \* some transfer has left its receiver waiting
    removed,  \* names removed since the synchronisation listed them
    changes

vars == <<disk, remote, sync, stuck, removed, changes>>

Blank == {Space}
Newline == {"\n"}

(* The first position from i on with a character of C, or without, or else  *)
(* the end.                                                                 *)
OrEnd(k, s) == IF k = 0 THEN Len(s) + 1 ELSE k
Until(s, i, C) == OrEnd(SelectInSubSeq(s, i, Len(s), LAMBDA c : c \in C), s)
Past(s, i, C) == OrEnd(SelectInSubSeq(s, i, Len(s), LAMBDA c : c \notin C), s)

Word(s, i) == SubSeq(s, i, Until(s, i, Blank \cup Newline) - 1)

(* getArgument and getSecondArgument: past a word, past the blanks.         *)
NextWord(s, i) == Past(s, Until(s, i, Blank), Blank)
getArgument(command) == Word(command, NextWord(command, 1))
getSecondArgument(command) == Word(command, NextWord(command, NextWord(command, 1)))

Kept(c) == IF c \in {Space, "~"} THEN <<>> ELSE <<c>>
Squeeze(s) == FlattenSeq([i \in DOMAIN s |-> Kept(s[i])])

(* Blanks and tildes disappear, wherever they are; a newline ends the name. *)
removeBlank(path) == HOME \o Squeeze(SubSeq(path, 1, Until(path, 1, Newline) - 1))

lastdash(path) == SelectLastInSeq(path, LAMBDA c : c = "/")

pickFileNameFromPath_SkipsOne(path) == SubSeq(path, lastdash(path) + 2, Len(path))

(* Without a slash, lastdash is 0 and the first character is lost.          *)
pickFileNameFromPath(path) ==
    SubSeq(path, IF lastdash(path) = 0 THEN 2 ELSE lastdash(path) + 1, Len(path))

(* The server's listing: a heading, then a line for each file.              *)
Heading == <<"C", ":", "\n">>
Line(name) == <<Space, "-", Space>> \o name \o <<"\n">>
list_files(names) == Heading \o FlattenSeq([i \in DOMAIN names |-> Line(names[i])])

(* The name at contstr and where the next line begins.  The first call      *)
(* skips the heading; at the end of the text there is no name.              *)
findnext_TwoCharacters(list, contador, contstr) ==
    LET i == IF contador = 0 THEN Until(list, 1, Newline) + 1 ELSE contstr
        j == Until(list, i + 2, Newline)
    IN  IF i > Len(list) THEN [name |-> <<>>, contstr |-> contstr]
        ELSE [name |-> SubSeq(list, i + 2, j - 1),
              contstr |-> IF j > Len(list) THEN j ELSE j + 1]

findnext(list, contador, contstr) ==
    LET i == IF contador = 0 THEN Until(list, 1, Newline) + 1 ELSE contstr
        j == Until(list, i + 3, Newline)
    IN  IF i > Len(list) THEN [name |-> <<>>, contstr |-> contstr]
        ELSE [name |-> SubSeq(list, i + 3, j - 1),
              contstr |-> IF j > Len(list) THEN j ELSE j + 1]

devolvePathSyncDir == removeBlank(<<"~", "/">>) \o Tail(SYNC)
devolvePathSyncDirBruto == <<"~">> \o SYNC

NotSyncing == [pc |-> "idle", todo |-> <<>>, names |-> <<>>, list |-> <<>>,
               contador |-> 0, contstr |-> 1]

Init ==
    /\ disk = <<>> /\ remote = <<>>
    /\ sync = NotSyncing
    /\ stuck = FALSE
    /\ removed = {}
    /\ changes = 0

-----------------------------------------------------------------------------
(* The directory in which the path's file is.                               *)
DirOf(path) == SubSeq(path, 1, lastdash(path))

(* A file opened for writing keeps its content until something is stored;   *)
(* in a directory that does not exist there is none, and nobody is told.    *)
Stored_Anywhere(files, path, contents) ==
    [p \in DOMAIN files \cup {path} |-> IF p = path THEN contents ELSE files[p]]

Stored(files, path, contents) ==
    IF DirOf(path) \notin Directories THEN files
    ELSE [p \in DOMAIN files \cup {path} |->
            IF p = path THEN contents ELSE files[p]]

Before(files, p) == IF p \in DOMAIN files THEN files[p] ELSE Empty

(* Whether send_file_to leaves the receiver waiting: it says nothing when   *)
(* it cannot open the file, and it sends no last packet when the length is  *)
(* a multiple of a packet's, or when the reply buffer happens to hold the   *)
(* acknowledgment already (FileTransfer shows which cases there are).       *)
Outcomes(files, f) ==
    IF f \notin DOMAIN files THEN {TRUE}
    ELSE IF files[f] \in Strandable THEN BOOLEAN ELSE {FALSE}

(* send_file: asks under the last part of the path, opens the path without  *)
(* its blanks.  The server has created its file by then.                    *)
send_file(path) ==
    LET name == pickFileNameFromPath(path)
        opened == removeBlank(path)
        there == opened \in DOMAIN disk
    IN  /\ remote' = [n \in DOMAIN remote \cup {name} |->
                        IF n # name THEN remote[n]
                        ELSE IF there THEN disk[opened] ELSE Before(remote, name)]
        /\ stuck' \in Outcomes(disk, opened)
        /\ UNCHANGED disk

(* get_file: the name as it is, at the end of the path to be written.       *)
get_file(name, finalpath) ==
    LET path == removeBlank(<<"~", "/">>) \o SubSeq(finalpath, 3, Len(finalpath)) \o name
        there == name \in DOMAIN remote
    IN  /\ disk' = Stored(disk, path, IF there THEN remote[name] ELSE Before(disk, path))
        /\ stuck' \in Outcomes(remote, name)
        /\ UNCHANGED remote

-----------------------------------------------------------------------------
(* sync_client: every file of the directory, in readdir's order, is         *)
(* uploaded; then every file of the server's listing is downloaded.         *)

(* The names of the files of the directory.                                 *)
Local == {n \in {SubSeq(p, Len(devolvePathSyncDir) + 1, Len(p)) :
                    p \in {q \in DOMAIN disk : IsPrefix(devolvePathSyncDir, q)}} :
            n # <<>>}

BeginSync ==
    /\ ~stuck /\ sync.pc = "idle"
    /\ \E order \in SetToSeqs(Local) : sync' = [sync EXCEPT !.pc = "upload", !.todo = order]
    /\ removed' = {}
    /\ UNCHANGED <<disk, remote, stuck, changes>>

NextUpload ==
    /\ ~stuck /\ sync.pc = "upload" /\ sync.todo # <<>>
    /\ sync' = [sync EXCEPT !.todo = Tail(@)]
    /\ send_file(devolvePathSyncDirBruto \o Head(sync.todo))
    /\ UNCHANGED <<removed, changes>>

List ==
    /\ ~stuck /\ sync.pc = "upload" /\ sync.todo = <<>>
    /\ \E order \in SetToSeqs(DOMAIN remote) :
          sync' = [NotSyncing EXCEPT !.pc = "download", !.names = order,
                                     !.list = list_files(order)]
    /\ removed' = {}
    /\ UNCHANGED <<disk, remote, stuck, changes>>

(* The loop ends at an empty name.                                          *)
NextDownload ==
    /\ ~stuck /\ sync.pc = "download"
    /\ LET next == findnext(sync.list, sync.contador, sync.contstr)
       IN  IF next.name = <<>>
           THEN sync' = NotSyncing /\ UNCHANGED <<disk, remote, stuck>>
           ELSE /\ sync' = [sync EXCEPT !.contador = @ + 1, !.contstr = next.contstr]
                /\ get_file(next.name, devolvePathSyncDirBruto)
    /\ UNCHANGED <<removed, changes>>

-----------------------------------------------------------------------------
Change ==
    /\ changes < MaxChanges
    /\ changes' = changes + 1

Without(files, f) == Restrict(files, DOMAIN files \ {f})

(* A synchronisation that is at one of pcs has listed n, which is removed.  *)
Remember(n, pcs) ==
    removed' = IF sync.pc \in pcs THEN removed \cup {n} ELSE removed

(* The user types a command between two requests of the synchronisation.    *)
Upload(command) ==
    /\ ~stuck /\ command[1] = "u" /\ Change
    /\ send_file(getArgument(command))
    /\ UNCHANGED <<sync, removed>>

Download(command) ==
    /\ ~stuck /\ command[1] = "d" /\ Change
    /\ get_file(getArgument(command), getSecondArgument(command))
    /\ UNCHANGED <<sync, removed>>

(* delete_file, here and on the server: the name as it was typed, in the    *)
(* synchronised directory and nowhere else.  (Without a name the path is    *)
(* the directory's, which is left out.)                                     *)
Delete(command) ==
    LET name == getArgument(command)
        path == devolvePathSyncDir \o name
    IN  /\ ~stuck /\ command[1] = "x" /\ name # <<>> /\ Change
        /\ IF path \in DOMAIN disk
           THEN /\ disk' = Without(disk, path)
                /\ remote' = Without(remote, name)
                /\ Remember(name, {"upload", "download"})
           ELSE UNCHANGED <<disk, remote, removed>>
        /\ UNCHANGED <<sync, stuck>>

(* A program or the user writes a file in the synchronised directory or     *)
(* next to it, or another device uploads one whose name allows it.          *)
Create(n) ==
    /\ Change
    /\ \E dir \in Directories :
          disk' = Stored(disk, dir \o n, n)
    /\ UNCHANGED <<remote, sync, stuck, removed>>

Other(n) ==
    /\ Change
    /\ removeBlank(devolvePathSyncDirBruto \o n) = SyncDir \o n
    /\ remote' = [m \in DOMAIN remote \cup {n} |-> IF m = n THEN n ELSE remote[m]]
    /\ UNCHANGED <<disk, sync, stuck, removed>>

(* A program or the user removes a file of the synchronised directory, or   *)
(* another device deletes one, whose name its user can type.                *)
Erase(n) ==
    /\ Change
    /\ disk' = Without(disk, devolvePathSyncDir \o n)
    /\ Remember(n, {"upload"})
    /\ UNCHANGED <<remote, sync, stuck>>

OtherDelete(n) ==
    /\ Change
    /\ ~Has(n, Space) /\ ~Has(n, "\n")
    /\ remote' = Without(remote, n)
    /\ Remember(n, {"download"})
    /\ UNCHANGED <<disk, sync, stuck>>

Next ==
    \/ BeginSync \/ NextUpload \/ List \/ NextDownload
    \/ \E command \in Commands : Upload(command) \/ Download(command) \/ Delete(command)
    \/ \E n \in Created : Create(n) \/ Other(n)
    \/ \E n \in Local : Erase(n)
    \/ \E n \in DOMAIN remote : OtherDelete(n)

Spec == Init /\ [][Next]_vars

-----------------------------------------------------------------------------
(* Properties *)

Plain(n) == ~Has(n, Space) /\ ~Has(n, "~") /\ ~Has(n, "\n")

(* Files lie in the two directories, whose paths hold no blank or tilde;    *)
(* the listing being worked through is that of the names it was made from;  *)
(* what a synchronisation has listed is there until somebody removes it.    *)
TypeOK ==
    /\ \A p \in DOMAIN disk : /\ DirOf(p) \in Directories
                              /\ disk[p] \in Created \cup {Empty}
    /\ \A n \in DOMAIN remote : remote[n] \in Created \cup {Empty}
    /\ sync.pc \in {"idle", "upload", "download"}
    /\ sync.pc = "upload" => ToSet(sync.todo) \subseteq Local \cup removed
    /\ sync.pc = "download" => /\ sync.list = list_files(sync.names)
                               /\ sync.contstr \in 1..(Len(sync.list) + 1)
                               /\ ToSet(sync.names) \subseteq DOMAIN remote \cup removed
    /\ stuck \in BOOLEAN
    /\ changes \in 0..MaxChanges

(* What is found under a name without blank, tilde or newline was created   *)
(* under it, on the device and on the server, whatever other names there    *)
(* are: the name that send_file asks under and the path that it opens are   *)
(* derived separately and agree for these names.  (A file "a b" gets the    *)
(* content of "ab", if there is one.)                                       *)
ContentFollowsName ==
    ~stuck => /\ \A n \in DOMAIN remote : Plain(n) => remote[n] = n
              /\ \A p \in DOMAIN disk :
                    Plain(pickFileNameFromPath(p)) => disk[p] = pickFileNameFromPath(p)

(* The path of a download is put together out of the directory that the     *)
(* user typed and the name: without a slash between them it is the path of  *)
(* another file.                                                            *)
DownloadsToDirectories ==
    \A command \in Commands : command[1] = "d" =>
        LET directory == getSecondArgument(command)
        IN  Len(directory) <= 2 \/ directory[Len(directory)] = "/"

(* findnext reads out of the text what list_files put into it, one name per *)
(* call and nothing after the last, unless a name contains a newline.       *)
EnumeratesListing ==
    sync.pc = "download" /\ (\A n \in ToSet(sync.names) : ~Has(n, "\n")) =>
        findnext(sync.list, sync.contador, sync.contstr).name =
            IF sync.contador < Len(sync.names) THEN sync.names[sync.contador + 1]
            ELSE <<>>

(* A synchronisation leaves a receiver waiting for one of four reasons: an  *)
(* upload of a name with a blank, a tilde or a newline, or a listing in     *)
(* which some name holds a newline; a file removed since it was listed, on  *)
(* the device for an upload and on the server for a download; a content     *)
(* that may strand any transfer.  For nothing else: every other name leads  *)
(* back to the file it was taken from.                                      *)
SyncStrandsForAReason ==
    [][~stuck /\ stuck' /\ sync' # sync =>
          \/ sync.pc = "upload" /\
                LET n == Head(sync.todo)
                IN  ~Plain(n) \/ n \in removed \/ Before(disk, SyncDir \o n) \in Strandable
          \/ sync.pc = "download" /\
                LET n == findnext(sync.list, sync.contador, sync.contstr).name
                IN  \/ \E m \in ToSet(sync.names) : Has(m, "\n")
                    \/ n \in removed \/ Before(remote, n) \in Strandable]_vars

=============================================================================
