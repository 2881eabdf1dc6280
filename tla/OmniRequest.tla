----------------------------- MODULE OmniRequest -----------------------------
(***************************************************************************)
(* One voice request to the cloud (omni_client_send_audio and, inside it,  *)
(* upload_audio_to_oss of omni_client.c): get an upload policy over the    *)
(* client that stays, post the recording, ask for the reply and hand it    *)
(* over.  What a step allocates and what each exit frees is kept in a set; *)
(* the bytes are left out.  Any allocation, connection, or answer of the   *)
(* service may fail.                                                       *)
(***************************************************************************)
EXTENDS Integers

CONSTANT MaxLeaks   \* bound: requests that leave something behind

VARIABLES
  reqAt,      \* the step that comes next
  reqHeld,    \* allocations and clients of the request
  reqFailed,  \* where the request failed, "no" if it has not
  reqClient,  \* the client that stays: "none", "shut" or "open"
  reqLeaks    \* requests that left something behind

reqVars == <<reqAt, reqHeld, reqFailed, reqClient, reqLeaks>>

Resources == {"wav", "policy", "json", "key", "oss_url", "saved", "fields", "post", "url",
              "body", "ctx", "http"}

\* The copies of the policy's fields and the texts made of them.
Texts == {"key", "oss_url", "saved", "fields"}

Init == /\ reqAt = "idle" /\ reqHeld = {} /\ reqFailed = "no"
        /\ reqClient = "none" /\ reqLeaks = 0

\* omni_client_init and omni_client_deinit.
Open == /\ reqAt = "idle" /\ reqClient = "none"
        /\ reqClient' = "shut"
        /\ UNCHANGED <<reqAt, reqHeld, reqFailed, reqLeaks>>

Close == /\ reqAt = "idle" /\ reqClient # "none"
         /\ reqClient' = "none"
         /\ UNCHANGED <<reqAt, reqHeld, reqFailed, reqLeaks>>

\* A step that succeeds, and one that fails on its way to an exit.
Does(from, to, takes, frees) == /\ reqAt = from
                                /\ reqAt' = to
                                /\ reqHeld' = (reqHeld \ frees) \cup takes
                                /\ UNCHANGED <<reqFailed, reqLeaks>>

Quits(from, exit, frees) == /\ reqAt = from
                            /\ reqAt' = exit
                            /\ reqHeld' = reqHeld \ frees
                            /\ reqFailed' = from
                            /\ UNCHANGED reqLeaks

Keep == UNCHANGED reqClient
Shut == reqClient' = "shut"

-----------------------------------------------------------------------------
Send == /\ reqClient # "none"
        /\ \/ Does("idle", "policy.open", {"wav"}, {})
           \/ Quits("idle", "return", {})
        /\ Keep

\* The policy: status, length and answer; the client is shut on every way out.
PolicyOpen == \/ Does("policy.open", "policy.headers", {}, {}) /\ reqClient' = "open"
              \/ Quits("policy.open", "uploaded", {}) /\ Keep

PolicyHeaders == \/ Does("policy.headers", "policy.read", {"policy"}, {}) /\ Keep
                 \/ Quits("policy.headers", "uploaded", {}) /\ Shut

\* Mutant: a failed read returns before the client is shut.
MutPolicyRead == \/ Does("policy.read", "policy.parse", {"json"}, {"policy"}) /\ Shut
                 \/ Quits("policy.read", "uploaded", {"policy"}) /\ Keep

PolicyRead == /\ \/ Does("policy.read", "policy.parse", {"json"}, {"policy"})
                 \/ Quits("policy.read", "uploaded", {"policy"})
              /\ Shut

\* A field is missing, or memory is, for one of the texts.
PolicyParse == /\ \/ Does("policy.parse", "fields", {"key", "oss_url", "saved"}, {"json"})
                  \/ Quits("policy.parse", "uploaded", {"json"})
               /\ Keep

FieldBuffer == /\ \/ Does("fields", "post.init", {"fields"}, {})
                  \/ Quits("fields", "uploaded", Texts)
               /\ Keep

\* The two exits that free nothing.
PostInit == /\ \/ Does("post.init", "post.open", {"post"}, {})
               \/ Quits("post.init", "uploaded", {})
            /\ Keep

PostOpen == /\ \/ Does("post.open", "post.write", {}, {})
               \/ Quits("post.open", "uploaded", {"post"})
            /\ Keep

\* Mutant: the exit of a failed write keeps the texts.
MutPostWrite == /\ \/ Does("post.write", "post.answer", {}, {})
                   \/ Quits("post.write", "uploaded", {"post"})
                /\ Keep

\* Only the writes of the recording are looked at.
PostWrite == /\ \/ Does("post.write", "post.answer", {}, {})
                \/ Quits("post.write", "uploaded", Texts \cup {"post"})
             /\ Keep

\* fetch_headers returns a length, which is taken for ESP_OK when it is zero:
\* an answer with a body is a failure, whatever its status.
PostAnswer == /\ \E status \in {200, 403}, length \in {0, 1}, copied \in BOOLEAN :
                     IF status = 200 /\ length = 0 /\ copied
                     THEN Does("post.answer", "uploaded", {"url"}, Texts \cup {"post"})
                     ELSE Quits("post.answer", "uploaded", Texts \cup {"post"})
              /\ Keep

-----------------------------------------------------------------------------
\* Mutant: the recording is kept until the reply is over.
MutUploaded == /\ \/ "url" \in reqHeld /\ Does("uploaded", "body", {}, {})
                  \/ /\ "url" \notin reqHeld /\ reqAt = "uploaded"
                     /\ reqAt' = "return" /\ reqHeld' = reqHeld \ {"wav"}
                     /\ UNCHANGED <<reqFailed, reqLeaks>>
               /\ Keep

\* Back in send_audio: the recording is freed first, then the URL is looked at.
Uploaded == /\ reqAt = "uploaded"
            /\ reqAt' = IF "url" \in reqHeld THEN "body" ELSE "return"
            /\ reqHeld' = reqHeld \ {"wav"}
            /\ UNCHANGED <<reqFailed, reqLeaks>>
            /\ Keep

Body == /\ \/ Does("body", "ask", {"body", "ctx"}, {"url"})
           \/ Quits("body", "return", {"url"})
        /\ Keep

Ask == /\ \/ Does("ask", "stream", {"http"}, {})
          \/ Quits("ask", "return", {"body", "ctx"})
       /\ Keep

\* esp_http_client_perform reads the whole stream (SseStream).
Stream == /\ \/ Does("stream", "deliver", {}, {"body", "http"})
             \/ Quits("stream", "return", {"body", "http", "ctx"})
          /\ Keep

\* on_response_done feeds the player, as long as that takes.
Deliver == Does("deliver", "return", {}, {"ctx"}) /\ Keep

Return == /\ reqAt = "return"
          /\ reqAt' = "idle"
          /\ reqLeaks' = IF reqHeld = {} THEN reqLeaks ELSE reqLeaks + 1
          /\ reqLeaks' <= MaxLeaks
          /\ reqHeld' = {}
          /\ reqFailed' = "no"
          /\ Keep

Request == \/ PolicyOpen \/ PolicyHeaders \/ PolicyRead \/ PolicyParse \/ FieldBuffer
           \/ PostInit \/ PostOpen \/ PostWrite \/ PostAnswer
           \/ Uploaded \/ Body \/ Ask \/ Stream \/ Deliver \/ Return

Next == Open \/ Close \/ Send \/ Request

Spec == Init /\ [][Next]_reqVars

-----------------------------------------------------------------------------
(* Properties.                                                             *)

TypeOK == /\ reqHeld \subseteq Resources
          /\ reqClient \in {"none", "shut", "open"}
          /\ reqLeaks \in 0..MaxLeaks
          /\ reqAt # "idle" => reqClient # "none"

\* The client that stays is open only while the policy is fetched: on every
\* way out of the upload it can be used again.
ClientReusable == reqClient = "open" => reqAt \in {"policy.headers", "policy.read"}

\* Whatever fails, a request gives back all it took, but for the texts of an
\* upload whose POST client could not be made or opened.
OnlyPostLeaks == (reqAt = "return" /\ reqHeld # {}) =>
                     reqFailed \in {"post.init", "post.open"} /\ reqHeld = Texts

\* While the reply is fed to the player, for up to minutes, neither the
\* recording nor anything of the upload is still in memory.
LittleHeldWhilePlaying == reqAt = "deliver" => reqHeld = {"ctx"}

\* Every exit frees what was allocated.
NothingLeaks == reqLeaks = 0

=============================================================================
