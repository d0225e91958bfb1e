--------------------------------- MODULE Models ---------------------------------
(***************************************************************************)
(* All models on the neural processor: those of the vision slots, which    *)
(* the inference threads run, and the two of the voice, which the worker   *)
(* of the voice runs at the same time.                                     *)
(***************************************************************************)
EXTENDS SlotAdapters, MeloEngine

\* The models of the slots and of the voice are files of their own (config.txt).
ASSUME ModelsAssumption == Slots \cup {"encoder", "decoder"} \subseteq Models

modelsVars == <<rknnVars, slotAdapterVars, meloVars>>

ModelsInit == RknnInit /\ SlotAdaptersInit /\ MeloEngineInit

ModelsNext ==
    \/ SlotAdaptersNext /\ UNCHANGED meloVars
    \/ MeloEngineNext /\ UNCHANGED slotAdapterVars

ModelsSpec == ModelsInit /\ [][ModelsNext]_modelsVars

-----------------------------------------------------------------------------
\* Whatever call failed on this frame or on the last one, before or after its model was put away
\* and taken back: the text, the boxes and the signal given on with a frame are those of this
\* frame, or empty (Inference, Postprocess, GetAdapterSignals).
ResultsOfThisFrame ==
    \A r \in given.results : {r.text.found, r.text.box, r.signal} \subseteq {0, given.frame}

\* Sentences are heard in their order, each made of what the models computed of it and of no
\* other, whichever call failed on the way (inference_melotts_model).
SoundOfThisSentence ==
    \A k \in DOMAIN sounds :
        /\ sounds[k].made = sounds[k].of
        /\ k > 1 => sounds[k - 1].of < sounds[k].of

\* A slot has one context however often it was put away or could not be loaded; an Init of the
\* voice that fails leaves at most one behind; and the outputs handed out are those that a
\* thread is about to read.
NothingLeaked ==
    /\ \A s \in Slots :
          /\ opened[s] = IF Loaded(s) THEN 1 ELSE 0
          /\ lent[s] = Cardinality({i \in Threads : thread[i].output # 0 /\ SlotOf(i) = s})
    /\ opened["encoder"] + opened["decoder"] <= inits + (IF ready THEN 1 ELSE 0)
    /\ ready => opened["encoder"] > 0 /\ opened["decoder"] > 0
    /\ lent["encoder"] = IF voice = "encoder_out" THEN 1 ELSE 0
    /\ lent["decoder"] = IF voice = "decoder_out" THEN 1 ELSE 0
=============================================================================
