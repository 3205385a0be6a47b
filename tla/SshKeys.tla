------------------------------ MODULE SshKeys ------------------------------
(***************************************************************************)
(* The ssh key of one git provider: its row, the file that git reads it    *)
(* from (one per provider, for all its materials), and core.sshCommand of  *)
(* the materials' repositories, which names the file.  No lock protects    *)
(* the file: ioutil.WriteFile truncates it, and fills it a step later.     *)
(***************************************************************************)

CONSTANTS
    Materials,  \* the git materials of the provider
    Keys,       \* private keys a client may save
    Good,       \* the one the git server accepts
    Broken,     \* content of a file that is empty or a mixture of keys
    NoFile      \* the file does not exist

ASSUME KeyAssumption == Good \in Keys /\ Broken \notin Keys /\ NoFile \notin Keys /\ Broken # NoFile

VARIABLES
    provider,   \* SshPrivateKey of the row of git_provider
    keyFile,    \* content of SSH_PRIVATE_KEY_DIR/<id>/ssh_pvt_key
    sshCommand  \* whether a material's repository has core.sshCommand set

sshVars == <<provider, keyFile, sshCommand>>

\* Any saves were made before, and any file may have come of them.
SshInit ==
    /\ provider \in Keys
    /\ keyFile \in Keys \cup {Broken, NoFile}
    /\ sshCommand = [m \in Materials |-> TRUE]

SshOK ==
    /\ provider \in Keys
    /\ keyFile \in Keys \cup {Broken, NoFile}
    /\ sshCommand \in [Materials -> BOOLEAN]

\* git can log in for material m.
LogsIn(m) == sshCommand[m] /\ keyFile = Good

\* Update of GitProviderRepository.
UpdateProvider(k) == provider' = k /\ UNCHANGED <<keyFile, sshCommand>>

\* WriteFile opens the file ...
OpenKeyFile == keyFile' = Broken /\ UNCHANGED <<provider, sshCommand>>

\* ... and writes key k from its start.  What another goroutine has written
\* meanwhile may be longer, then its end stays; a file that was removed meanwhile
\* stays removed.
FillKeyFile(k) ==
    /\ keyFile' \in CASE keyFile = NoFile      -> {NoFile}
                      [] keyFile \in {Broken, k} -> {k}
                      [] OTHER                 -> {k, Broken}
    /\ UNCHANGED <<provider, sshCommand>>

\* "there might be the case if ssh private key gets flush from disk"
\* (Watcher.go:198).
Flush == keyFile' = NoFile /\ UNCHANGED <<provider, sshCommand>>

\* Broken variant of GetOrCreateSshPrivateKeyOnDisk: a file that exists stays.
KeepKeyFile(then, otherwise) ==
    IF keyFile # NoFile THEN then /\ UNCHANGED sshVars ELSE otherwise /\ OpenKeyFile

\* GetOrCreateSshPrivateKeyOnDisk.  os.IsExist(err) of Stat's error is false
\* also if the file exists (then the error is nil), so the file is opened in
\* either case, though the comment says "if file exists then return".
GetOrCreateKeyFile(then, otherwise) == otherwise /\ OpenKeyFile

\* ConfigureSshCommand, and the removal of the repository with its .git/config.
ConfigureSshCommand(m) ==
    sshCommand' = [sshCommand EXCEPT ![m] = TRUE] /\ UNCHANGED <<provider, keyFile>>
RemoveRepository(m) ==
    sshCommand' = [sshCommand EXCEPT ![m] = FALSE] /\ UNCHANGED <<provider, keyFile>>

=============================================================================
