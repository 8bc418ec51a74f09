-------------------------- MODULE ProviderSettings --------------------------
(***************************************************************************)
(* AiProviderManager over AiProviderConfigStore: which provider the user   *)
(* selected, in a file and in memory.  Saving takes several steps, during  *)
(* which more requests arrive; the file may be damaged or unreadable, and  *)
(* the key store may be gone, when the program starts again.  A base URL   *)
(* stands for the URL and the name of the model.                           *)
(***************************************************************************)
EXTENDS Naturals, Sequences

CONSTANTS
    Urls,           \* base URLs the user types
    ValidUrls,      \* those parseProviderBaseUrl accepts now
    Keys,           \* API keys the user types
    NoKey,          \* no key typed, or none known
    Keychains,      \* OS keychains: one cannot decrypt what another encrypted
    MaxRequests,    \* bound: changes of the configuration
    MaxFaults,      \* bound: failed writes, damage to the file, crashes
    MaxChanges      \* bound: changes of the machine around the program

ASSUME BoundsAssumption ==
    /\ ValidUrls \subseteq Urls /\ NoKey \notin Keys
    /\ MaxRequests \in Nat /\ MaxFaults \in Nat /\ MaxChanges \in Nat

VARIABLES
    file,       \* aliasai.ai-provider.json
    readable,   \* whether the file, if there is one, can be read
    machine,    \* safeStorage and ALIASAI_ALLOW_PLAINTEXT_KEYS
    memory,     \* the fields of AiProviderManager
    requests,   \* the calls that change the configuration, in their order
    up,
    budget      \* what is left of the bounds above

vars == <<file, readable, machine, memory, requests, up, budget>>

NoFile == [provider |-> "none"]
MockFile == [provider |-> "mock"]
Corrupt == [provider |-> "corrupt"]
OpenAiFile(url, key, seal) ==
    [provider |-> "openai", baseUrl |-> url, key |-> key, seal |-> seal]
OpenAiFiles == [provider : {"openai"}, baseUrl : Urls, key : Keys,
                seal : Keychains \cup {"plain", "missing"}]

NoSecret == [baseUrl |-> "none", key |-> NoKey]
Secret(url, key) == [baseUrl |-> url, key |-> key]
ErrorCodes == {"UNREADABLE", "CORRUPT", "KEY_MISSING", "KEYSTORE_UNAVAILABLE",
               "KEY_UNAVAILABLE", "CONFIG_INVALID"}
Ended == {"done", "failed", "lost"}

TypeOK ==
    /\ file \in {NoFile, MockFile, Corrupt} \cup OpenAiFiles
    /\ readable \in BOOLEAN /\ up \in BOOLEAN
    /\ machine \in [keychain : Keychains \cup {"unavailable"}, plaintext : BOOLEAN]
    /\ memory.selected \in {"mock", "openai"}
    /\ memory.error \in ErrorCodes \cup {"none"}
    /\ memory.secret = NoSecret \/ memory.secret \in [baseUrl : ValidUrls, key : Keys]
    /\ \A i \in DOMAIN requests :
         /\ requests[i].kind \in {"openai", "mock", "clear"}
         /\ requests[i].phase \in {"queued", "writing", "stored"} \cup Ended
    /\ budget \in [faults : Nat, changes : Nat]

Spent(bound) == budget[bound] > 0 /\ budget' = [budget EXCEPT ![bound] = @ - 1]

-----------------------------------------------------------------------------
(* Loading                                                                 *)

Mocked == [selected |-> "mock", secret |-> NoSecret, error |-> "none"]
Active(url, key) == [selected |-> "openai", secret |-> Secret(url, key), error |-> "none"]
Unusable(code) == [selected |-> "openai", secret |-> NoSecret, error |-> code]

\* Mutant: the endpoint of the form is forgotten, its key is not.
ForgetSelection(m) == [m EXCEPT !.selected = "mock", !.error = "none"]

\* resetToMock.
ResetToMock(m) == Mocked

\* Why the key of an openai file cannot be used: load, then applyLoaded.
KeyError ==
    CASE file.seal = "missing" -> "KEY_MISSING"
      [] file.seal = "plain" /\ ~machine.plaintext -> "CORRUPT"
      [] file.seal \in Keychains /\ machine.keychain = "unavailable" -> "KEYSTORE_UNAVAILABLE"
      [] file.seal \in Keychains /\ machine.keychain \notin {"unavailable", file.seal}
           -> "KEY_UNAVAILABLE"
      [] OTHER -> IF file.baseUrl \in ValidUrls THEN "none" ELSE "CONFIG_INVALID"

\* Mutant: a file that cannot be read is taken for none.
AbsentOrUnread == file = NoFile \/ ~readable

\* Only ENOENT means that nothing is configured yet.
NotConfigured == file = NoFile

\* init(): what is in memory after the file was loaded.
Loaded ==
    CASE NotConfigured -> Mocked
      [] ~NotConfigured /\ ~readable -> [Mocked EXCEPT !.error = "UNREADABLE"]
      [] ~NotConfigured /\ readable /\ file = Corrupt -> [Mocked EXCEPT !.error = "CORRUPT"]
      [] ~NotConfigured /\ readable /\ file = MockFile -> Mocked
      [] OTHER -> IF KeyError = "none" THEN Active(file.baseUrl, file.key)
                                       ELSE Unusable(KeyError)

\* An older build may have saved a URL that is refused now.
Init ==
    /\ file \in {NoFile, MockFile} \cup {f \in OpenAiFiles : f.seal /= "missing"}
    /\ readable = TRUE
    /\ machine \in [keychain : Keychains \cup {"unavailable"}, plaintext : BOOLEAN]
    /\ memory = Loaded
    /\ requests = <<>>
    /\ up = TRUE
    /\ budget = [faults |-> MaxFaults, changes |-> MaxChanges]

-----------------------------------------------------------------------------
(* Requests                                                                *)

Ask(kind, url, key) ==
    /\ up /\ Len(requests) < MaxRequests
    /\ requests' = Append(requests, [kind |-> kind, baseUrl |-> url, key |-> key,
                                     phase |-> "queued", contents |-> NoFile, stored |-> FALSE])
    /\ UNCHANGED <<file, readable, machine, memory, up, budget>>

ConfigureOpenAi == \E url \in Urls, key \in Keys \cup {NoKey} : Ask("openai", url, key)
ConfigureMock == Ask("mock", "none", NoKey)
Clear == Ask("clear", "none", NoKey)

\* Mutant: every request starts at once.
AtOnce(i) == requests[i].phase = "queued"

\* Mutant: a request that failed stops those behind it.
AfterSuccess(i) == /\ requests[i].phase = "queued"
                   /\ \A j \in 1..(i - 1) : requests[j].phase \in {"done", "lost"}

\* serialize: a request runs when those before it have ended, well or not.
Turn(i) == /\ requests[i].phase = "queued"
           /\ \A j \in 1..(i - 1) : requests[j].phase \in Ended

\* The key that is typed, or else the one in use when the request runs.
UsedKey(r) == IF r.key /= NoKey THEN r.key ELSE memory.secret.key

Seal == IF machine.keychain /= "unavailable" THEN machine.keychain ELSE "plain"

\* Mutant: a form without a key is saved as it is.
AcceptableForm(r) == r.kind = "openai" => r.baseUrl \in ValidUrls

\* What configureOpenAi and saveOpenAi check before anything is written.
Acceptable(r) == r.kind = "openai" =>
    /\ UsedKey(r) /= NoKey /\ r.baseUrl \in ValidUrls
    /\ Seal = "plain" => machine.plaintext

Contents(r) == CASE r.kind = "openai" -> OpenAiFile(r.baseUrl, UsedKey(r), Seal)
                 [] r.kind = "mock" -> MockFile
                 [] r.kind = "clear" -> NoFile

\* Everything up to the first file operation.
Begin(i) ==
    /\ up /\ Turn(i)
    /\ requests' = [requests EXCEPT
          ![i].phase = IF Acceptable(requests[i]) THEN "writing" ELSE "failed",
          ![i].contents = IF Acceptable(requests[i]) THEN Contents(requests[i]) ELSE NoFile]
    /\ UNCHANGED <<file, readable, machine, memory, up, budget>>

\* The rename, or the rm: all or nothing.
Store(i) ==
    /\ up /\ requests[i].phase = "writing"
    /\ file' = requests[i].contents
    /\ readable' = TRUE
    /\ requests' = [requests EXCEPT ![i].phase = "stored", ![i].stored = TRUE]
    /\ UNCHANGED <<machine, memory, up, budget>>

\* Mutant: a write that fails goes unnoticed.
Unnoticed == "stored"

\* A write that fails is passed on.
AfterFailure == "failed"

StoreFails(i) ==
    /\ Spent("faults")
    /\ up /\ requests[i].phase = "writing"
    /\ requests' = [requests EXCEPT ![i].phase = AfterFailure]
    /\ UNCHANGED <<file, readable, machine, memory, up>>

\* Memory follows the file, in the turn in which the write returns.
Apply(i) ==
    /\ up /\ requests[i].phase = "stored"
    /\ LET contents == requests[i].contents
       IN  memory' = IF requests[i].kind = "openai" THEN Active(contents.baseUrl, contents.key)
                                                    ELSE ResetToMock(memory)
    /\ requests' = [requests EXCEPT ![i].phase = "done"]
    /\ UNCHANGED <<file, readable, machine, up, budget>>

\* What execute() would do now.
Dispatch == IF memory.error /= "none" THEN "refused"
            ELSE IF memory.secret /= NoSecret THEN "endpoint" ELSE "mock"

\* The id under which executions are recorded.
Id == IF memory.selected = "openai" THEN "openai" ELSE "mock"

-----------------------------------------------------------------------------
(* The machine around the program                                          *)

Crash ==
    /\ Spent("faults")
    /\ up
    /\ up' = FALSE
    /\ requests' = [i \in DOMAIN requests |->
          IF requests[i].phase \in Ended THEN requests[i] ELSE [requests[i] EXCEPT !.phase = "lost"]]
    /\ UNCHANGED <<file, readable, machine, memory>>

Restart ==
    /\ ~up
    /\ up' = TRUE
    /\ memory' = Loaded
    /\ UNCHANGED <<file, readable, machine, requests, budget>>

\* The file loses its key, or its form.
Damage ==
    /\ Spent("faults")
    /\ file.provider = "openai"
    /\ file' \in {Corrupt, [file EXCEPT !.seal = "missing"]}
    /\ UNCHANGED <<readable, machine, memory, requests, up>>

\* Permissions, the key store or the environment change.
MachineChanges ==
    /\ Spent("changes")
    /\ \/ /\ readable' = ~readable
          /\ UNCHANGED machine
       \/ /\ machine' \in [keychain : Keychains \cup {"unavailable"},
                           plaintext : IF up THEN {machine.plaintext} ELSE BOOLEAN]
          /\ UNCHANGED readable
    /\ UNCHANGED <<file, memory, requests, up>>

Step(i) == Begin(i) \/ Store(i) \/ StoreFails(i) \/ Apply(i)

Next == \/ ConfigureOpenAi \/ ConfigureMock \/ Clear
        \/ \E i \in DOMAIN requests : Step(i)
        \/ Crash \/ Restart \/ Damage \/ MachineChanges

\* Files are written or fail; nothing obliges the user to start it again.
Fairness == \A i \in 1..MaxRequests : WF_vars(i \in DOMAIN requests /\ Step(i))

Spec == Init /\ [][Next]_vars /\ Fairness

-----------------------------------------------------------------------------
(* What the user and the executions rely on                                *)

Settled == up /\ \A i \in DOMAIN requests : requests[i].phase /= "stored"
Damaged == file = Corrupt \/ (file.provider = "openai" /\ file.seal = "missing")

\* The file holds what the last of the successful requests asked for, in the
\* order in which they were made: a slow save never undoes a later clear.
LastRequestWins ==
    \A i \in DOMAIN requests :
        (/\ requests[i].stored /\ ~Damaged
         /\ \A j \in (i + 1)..Len(requests) : ~requests[j].stored)
            => file = requests[i].contents

\* A key is gone after a successful clear, or change to Mock, until the user
\* types it in a later request: saving without a key does not bring it back.
ForgottenKeyStaysAway ==
    LET Forgets(i) == requests[i].kind \in {"mock", "clear"} /\ requests[i].phase = "done"
        kept == {memory.secret.key} \cup (IF file.provider = "openai" THEN {file.key} ELSE {})
    IN  Settled => \A i \in DOMAIN requests : Forgets(i) =>
            \A key \in kept \ {NoKey} :
                \E j \in (i + 1)..Len(requests) : requests[j].key = key

\* Executions go to the endpoint the file names, with the key that was saved for
\* it, whatever writes failed or crashed.
EndpointIsSaved ==
    (Settled /\ ~Damaged /\ memory.secret /= NoSecret) =>
        /\ file.provider = "openai"
        /\ memory.secret = Secret(file.baseUrl, file.key)

\* Executions never fall back to Mock while an endpoint is configured, even when
\* its file is damaged, cannot be read, or its key is out of reach.
NoSilentMock ==
    (Settled /\ Dispatch = "mock") => file \in {NoFile, MockFile}

\* Every request ends, also behind one that failed.
RequestsEnd ==
    \A i \in 1..MaxRequests :
        (i \in DOMAIN requests) ~> (i \in DOMAIN requests /\ requests[i].phase \in Ended)

\* The getter id says it names the provider the user selected even when that
\* selection is unusable, so that failures are not put down to Mock.
AttributedToSelection ==
    (Settled /\ file.provider = "openai") => Id = "openai"
=============================================================================
