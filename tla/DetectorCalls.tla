--------------------------- MODULE DetectorCalls ---------------------------
(***************************************************************************)
(* What a detector call is made of: the kwargs an override gives it, the   *)
(* keys its result is cached under, and the request it posts               *)
(* (detector/*.py: cache_key_for, _do_detect and the *_call_kwargs of the  *)
(* specs; pipeline.py: _build_call_kwargs).  An override is {} when unset. *)
(***************************************************************************)
EXTENDS RemoteDetectors, RequestParams, Intake

\* prepare_call_kwargs / cache_kwargs of the specs, but for the API key.
CallKwargs(d, o) ==
    CASE d = "regex" -> <<o.regex_overlap_strategy, o.regex_patterns>>
      [] d = "denylist" -> <<o.denylist>>
      [] d = "llm" -> <<o.llm_model, o.llm_prompt>>
      [] d = "gliner_pii" -> <<o.gliner_labels, o.gliner_threshold>>
      [] OTHER -> <<>>

\* Key of the pipeline cache: the text, who runs and with which kwargs.
PipelineKey(t, ds, o) == [text |-> t, mode |-> ds, kwargs |-> [i \in DOMAIN ds |-> CallKwargs(ds[i], o)]]

\* An override, else the configured value.
Effective(override, configured) == IF override # {} THEN override ELSE configured

\* Slip: the prompt is no part of the key.
KeyWithoutPrompt(d, t, o, w) ==
    CASE d = "llm" -> <<t, Effective(o.llm_model, w.model)>>
      [] d = "gliner_pii" -> <<t, Effective(o.gliner_labels, w.labels),
                               Effective(o.gliner_threshold, w.threshold)>>
      [] OTHER -> <<t>>

\* cache_key_for of the remote detectors.
CacheKey(d, t, o, w) ==
    CASE d = "llm" -> <<t, Effective(o.llm_model, w.model),
                        IF o.llm_prompt = {} THEN "default" ELSE PlainName(o.llm_prompt)>>
      [] d = "gliner_pii" -> <<t, Effective(o.gliner_labels, w.labels),
                               Effective(o.gliner_threshold, w.threshold)>>
      [] OTHER -> <<t>>

\* The forwarded key, else the configured one.
ApiKey(w) == LET forwarded == IF w.use_forwarded_key THEN ForwardedBearer(w.authorization) ELSE ""
             IN IF forwarded # "" THEN forwarded ELSE w.api_key

\* The body that goes to the service; an unknown prompt is the default one, and
\* what is unset is left out.
Request(d, t, o, w) ==
    CASE d = "llm" -> [model |-> Effective(o.llm_model, w.model), text |-> t,
                       prompt |-> Named(PlainName(o.llm_prompt), w.prompt, w.prompts)]
      [] d = "gliner_pii" -> [text |-> t, labels |-> Effective(o.gliner_labels, w.labels),
                              threshold |-> Effective(o.gliner_threshold, w.threshold)]
      [] OTHER -> [text |-> t]
=============================================================================
