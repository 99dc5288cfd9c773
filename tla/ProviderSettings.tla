---------------------------- MODULE ProviderSettings ----------------------------
(* The settings of the model servers: those of the environment, which loadEnv accepts
   or refuses at start-up, and the rows an admin saves over them.  Every process reads
   the rows, decrypts their keys, merges them field by field over its environment and
   builds its providers from the result.

   Saving an embedding probes the server first, as the column that holds the vectors
   has one width.  A save is several steps: the stored key is read if none was typed,
   the server is probed, the row is written; other admins' saves come in between.  A
   redeployment brings another environment, another secret with it, and ends the saves
   under way. *)
EXTENDS Naturals

CONSTANTS
    Admin,
    Environment,        \* the environments to start with, accepted or not
    Form,               \* what an admin types: [kind, provider, base, model, key]
    Secret,             \* values of PROVIDER_SECRET_KEY
    DimensionOf(_),     \* the width of the vectors of a model
    EMBEDDING_DIM,
    Blank,              \* a field left empty, a column that is null
    MaxSaves, MaxDeploys    \* bounds

Kind == {"llm", "chat", "embedding", "ocr"}
NoRow == [provider |-> Blank]

ASSUME FormAssumption == \A f \in Form : f.kind \in Kind /\ f.provider # Blank
ASSUME EnvironmentAssumption == \A e \in Environment : DOMAIN e = Kind
ASSUME BoundsAssumption == MaxSaves \in Nat /\ MaxDeploys \in Nat

VARIABLES
    env,        \* what loadEnv returned: for each kind its settings
    secret,
    saved,      \* provider_settings: for each kind its row, or NoRow
    save,       \* for each admin the save under way
    saves, deploys  \* count saves and redeployments

settingsVars == <<env, secret, saved, save, saves, deploys>>

NoSave == [phase |-> "none"]
-------------------------------------------------------------------------------
(* loadEnv: the checks across fields.  A kind's settings are [provider, base, model,
   key]; OCR has one base for each of docling and mistral: [provider, docling, base,
   key].  CHAT_* may be blank, CHAT_PROVIDER too. *)

Filled(e, kind, field) ==
    IF kind = "chat" /\ e.chat[field] = Blank THEN e.llm[field] ELSE e[kind][field]

Accepted(e) ==
    /\ \A k \in {"llm", "chat", "embedding"} :
        e[k].provider = "openai-compatible" =>
            Filled(e, k, "base") # Blank /\ Filled(e, k, "model") # Blank
    /\ e.ocr.provider = "docling" => e.ocr.docling # Blank
    /\ e.ocr.provider = "mistral" => e.ocr.key # Blank
-------------------------------------------------------------------------------
(* mergeProviderConfig.  A field of the row that is null leaves the environment's. *)

Override(old, new) == IF new = Blank THEN old ELSE new

MergedModel(e, row) ==
    [provider |-> row.provider, base |-> Override(e.base, row.base),
     model |-> Override(e.model, row.model), key |-> Override(e.key, row.key)]

MergedOcr(e, row) ==
    [e EXCEPT !.provider = row.provider,
              !.docling = IF row.provider = "docling" THEN Override(@, row.base) ELSE @,
              !.base = IF row.provider = "mistral" THEN Override(@, row.base) ELSE @,
              !.key = IF row.provider = "mistral" THEN Override(@, row.key) ELSE @]

\* decryptSecret: what was encrypted with another secret throws.
Readable(row) ==
    row # NoRow /\ row.cipher # Blank => row.cipher.secret = secret
Plain(cipher) == IF cipher = Blank THEN Blank ELSE cipher.key
Decrypted(row) ==
    [provider |-> row.provider, base |-> row.base, model |-> row.model,
     key |-> Plain(row.cipher)]

\* loadProviderConfig: one key that cannot be read fails them all.
Loads == \A k \in Kind : Readable(saved[k])

Config ==
    [k \in Kind |-> IF saved[k] = NoRow THEN env[k]
                    ELSE IF k = "ocr" THEN MergedOcr(env.ocr, Decrypted(saved.ocr))
                    ELSE MergedModel(env[k], Decrypted(saved[k]))]

\* selectLlm, selectEmbedding, selectOcr, getChatModelFromConfig: FALSE where they
\* throw, or, for chat, where there is no model for a provider that has one.
Wired == [llm |-> {"fake", "openai-compatible"}, embedding |-> {"fake", "openai-compatible"},
          chat |-> {"openai-compatible"},
          ocr |-> {"fake", "docling", "mistral", "tesseract-pdf"}]

Builds(config, kind) ==
    LET provider == Filled(config, kind, "provider") IN
    /\ provider \in Wired[kind]
    /\ provider = "openai-compatible" =>
          Filled(config, kind, "base") # Blank /\ Filled(config, kind, "model") # Blank
    /\ provider = "docling" => config.ocr.docling # Blank
    /\ provider = "mistral" => config.ocr.key # Blank
-------------------------------------------------------------------------------
SettingsTypeOK ==
    /\ env \in {e \in Environment : Accepted(e)}
    /\ secret \in Secret
    /\ DOMAIN saved = Kind
    /\ \A k \in Kind : saved[k].provider = Blank <=> saved[k] = NoRow
    /\ \A a \in Admin :
        \/ save[a] = NoSave
        \/ /\ save[a].phase \in {"probe", "write"}
           /\ save[a].form \in Form
           /\ save[a].overtaken \in BOOLEAN
    /\ saves \in 0..MaxSaves
    /\ deploys \in 0..MaxDeploys

SettingsInit ==
    /\ env \in {e \in Environment : Accepted(e)}
    /\ secret \in Secret
    /\ saved = [k \in Kind |-> NoRow]
    /\ save = [a \in Admin |-> NoSave]
    /\ saves = 0
    /\ deploys = 0
-------------------------------------------------------------------------------
Continue(a, s) == save' = [save EXCEPT ![a] = s]

Ciphertext(key) == [secret |-> secret, key |-> key]

\* Faulty variant: a key left blank is not looked up.
KeyOfFormOnly(f) == IF f.key = Blank THEN Blank ELSE Ciphertext(f.key)

\* The key typed, encrypted; or else that of the row, if there is one.
KeyFor(f) ==
    IF f.key # Blank THEN Ciphertext(f.key)
    ELSE IF saved[f.kind] = NoRow THEN Blank
    ELSE saved[f.kind].cipher

\* saveProviderSettings, up to the probe.  Only an embedding is probed.  The key of the
\* row is decrypted for the probe, whatever is saved.
StartSave(a) ==
    /\ save[a] = NoSave
    /\ saves < MaxSaves
    /\ saves' = saves + 1
    /\ \E f \in Form :
        /\ f.key = Blank => Readable(saved[f.kind])
        /\ Continue(a, [phase |-> IF f.kind = "embedding" THEN "probe" ELSE "write",
                        form |-> f, cipher |-> KeyFor(f), overtaken |-> FALSE])
    /\ UNCHANGED <<env, secret, saved, deploys>>

\* testProviderConnection of an embedding: the widths it may report, if it answers.
Reported(f) ==
    IF f.provider = "fake" THEN {EMBEDDING_DIM}
    ELSE IF f.provider = "openai-compatible" /\ f.base # Blank /\ f.model # Blank
    THEN {DimensionOf(f.model)} ELSE {}

\* Faulty variant: that the server answers is enough.
ProbeAnswers(a) ==
    /\ save[a].phase = "probe"
    /\ Reported(save[a].form) # {}
    /\ Continue(a, [save[a] EXCEPT !.phase = "write"])
    /\ UNCHANGED <<env, secret, saved, saves, deploys>>

\* assertEmbeddingDimension
Probe(a) ==
    /\ save[a].phase = "probe"
    /\ EMBEDDING_DIM \in Reported(save[a].form)
    /\ Continue(a, [save[a] EXCEPT !.phase = "write"])
    /\ UNCHANGED <<env, secret, saved, saves, deploys>>

\* The server is away, answers with another width, or the request dies: no save.
GiveUp(a) ==
    /\ save[a] # NoSave
    /\ Continue(a, NoSave)
    /\ UNCHANGED <<env, secret, saved, saves, deploys>>

RowOf(s) ==
    [provider |-> s.form.provider, base |-> s.form.base, model |-> s.form.model,
     cipher |-> s.cipher]

\* upsertProviderSetting: the whole row.  "overtaken" is a ghost: another save of the
\* same kind was written since this one began.
Write(a) ==
    /\ save[a].phase = "write"
    /\ saved' = [saved EXCEPT ![save[a].form.kind] = RowOf(save[a])]
    /\ save' = [b \in Admin |->
                    IF b = a THEN NoSave
                    ELSE IF save[b] # NoSave /\ save[b].form.kind = save[a].form.kind
                    THEN [save[b] EXCEPT !.overtaken = TRUE]
                    ELSE save[b]]
    /\ UNCHANGED <<env, secret, saves, deploys>>

\* Another environment that loadEnv accepts, another secret perhaps.
Redeploy ==
    /\ deploys < MaxDeploys
    /\ deploys' = deploys + 1
    /\ env' \in {e \in Environment : Accepted(e)}
    /\ secret' \in Secret
    /\ save' = [a \in Admin |-> NoSave]
    /\ UNCHANGED <<saved, saves>>

SettingsNext ==
    \/ Redeploy
    \/ \E a \in Admin : StartSave(a) \/ Probe(a) \/ GiveUp(a) \/ Write(a)

SettingsSpec == SettingsInit /\ [][SettingsNext]_settingsVars
-------------------------------------------------------------------------------
\* Whatever environment is deployed over whatever rows, an embedding whose key can be
\* read is built, and its vectors fit the column, once it was saved, as none is saved
\* that was not probed: "a mismatched dimension would silently produce unsearchable
\* rows".
SavedEmbeddingFits ==
    saved.embedding # NoRow =>
        /\ Builds(Config, "embedding")
        /\ Config.embedding.provider = "openai-compatible" =>
              DimensionOf(Config.embedding.model) = EMBEDDING_DIM

\* A kind no row overrides is built from any environment that was accepted, if it names
\* a provider there is an adapter for: "env schema refinement already guarantees these".
\* (Chat takes what it lacks from the settings of the LLM, and their row.)
EnvironmentSuffices ==
    \A k \in Kind :
        /\ saved[k] = NoRow
        /\ k = "chat" => saved.llm = NoRow
        /\ Filled(env, k, "provider") \in Wired[k]
        => Builds(Config, k)

\* Neither a save nor a deployment leaves the next job without the providers it needs,
\* as far as the two checks there are reach.
ConfigBuilds == SavedEmbeddingFits /\ EnvironmentSuffices

\* "Leave the API key blank to keep the existing value": a save with no key leaves the
\* key of its kind as it is, unless another save of the kind overtook it.
BlankKeyIsKept ==
    [][\A k \in Kind : \A x \in Admin :
            /\ saved[k] # NoRow /\ saved'[k] # saved[k]
            /\ save[x] # NoSave /\ save'[x] = NoSave
            /\ save[x].form.kind = k /\ save[x].form.key = Blank
            => save[x].overtaken \/ saved'[k].cipher = saved[k].cipher]_settingsVars
===============================================================================
