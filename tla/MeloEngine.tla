------------------------------- MODULE MeloEngine -------------------------------
(***************************************************************************)
(* adapters/melotts/melotts_session.cpp and melotts_engine.cc: the         *)
(* two models of the voice, loaded together, and the sentences of a text,  *)
(* each put through the encoder and the decoder and given on as sound.     *)
(* Any call of the runtime may fail; the sentence is then left out.        *)
(*                                                                         *)
(* What is computed of sentence k is called k.                             *)
(***************************************************************************)
EXTENDS Rknn, Sequences

CONSTANTS Sentences,   \* bound: sentences 1 .. Sentences
          MaxInits     \* bound: how often Init is called

VARIABLES
    ready,       \* ready_; lexicon_ is there with it
    inits,       \* how often Init was called
    voice,       \* where SynthesizeTextStreaming is
    sentence,    \* the sentence it has reached
    hidden,      \* logw, x_mask, g, m_p, logs_p
    output_data, \* the samples of the decoder
    sounds       \* history: [of, made]: the chunks given to on_chunk

meloVars == <<ready, inits, voice, sentence, hidden, output_data, sounds>>

MeloEngineInit ==
    /\ ready = FALSE /\ inits = 0
    /\ voice = "idle" /\ sentence = 0
    /\ hidden = 0 /\ output_data = 0
    /\ sounds = <<>>

\* init_melotts_model: a context that cannot be queried stays open.
InitMelottsModel == {"no_context", "not_queried", "loaded"}
LeavesOpen(ending) == IF ending = "no_context" THEN 0 ELSE 1

\* What one MeloTtsSession::Init opens: the encoder is released when there is no decoder.
InitVoice(encoder, decoder) ==
    [m \in Models |->
        CASE m = "encoder" -> IF encoder = "loaded" /\ decoder # "loaded" THEN 0 ELSE LeavesOpen(encoder)
          [] m = "decoder" -> IF encoder = "loaded" THEN LeavesOpen(decoder) ELSE 0
          [] OTHER -> 0]

\* MeloTtsSession::Init.  TtsWorker asks for it only when there is no voice; its Shutdown of what
\* was there finds nothing then.  Paths and lexicon may be missing.
InitSession ==
    /\ ~ready /\ inits < MaxInits
    /\ inits' = inits + 1
    /\ \/ UNCHANGED <<ready, rknnVars>>
       \/ \E encoder, decoder \in InitMelottsModel :
             /\ Reopen(InitVoice(encoder, decoder))
             /\ ready' = (encoder = "loaded" /\ decoder = "loaded")
    /\ UNCHANGED <<voice, sentence, hidden, output_data, sounds>>

\* MeloTtsSession::Shutdown, release_melotts_model: the worker that speaks has been joined.
ShutdownSession ==
    /\ ready /\ voice = "idle"
    /\ ready' = FALSE
    /\ opened' = [m \in Models |-> IF m \in {"encoder", "decoder"} THEN opened[m] - 1 ELSE opened[m]]
    /\ UNCHANGED <<context, lent, inits, voice, sentence, hidden, output_data, sounds>>

\* The next sentence, in buffers of its own; without phonemes, or with the bert model asked for,
\* it is left out.
NextSentence ==
    /\ ready /\ voice = "idle" /\ sentence < Sentences
    /\ sentence' = sentence + 1
    /\ voice' \in {"idle", "encoder_set"}
    /\ UNCHANGED <<ready, inits, hidden, output_data, sounds, rknnVars>>

\* A call that fails ends the sentence; what was lent is released on the way out.
Ends == voice' = "idle" /\ hidden' = 0 /\ output_data' = 0
Fails == Ends /\ UNCHANGED rknnVars
Continues(at) == voice' = at /\ UNCHANGED <<hidden, output_data>>

\* inference_encoder_model
EncoderSet ==
    /\ voice = "encoder_set"
    /\ \/ Continues("encoder_run") /\ SetInputs("encoder", sentence)
       \/ Fails
    /\ UNCHANGED <<ready, inits, sentence, sounds>>

EncoderRun ==
    /\ voice = "encoder_run"
    /\ \/ Continues("encoder_get") /\ RunContext("encoder")
       \/ Fails
    /\ UNCHANGED <<ready, inits, sentence, sounds>>

\* The outputs are copied, then released.
EncoderGet ==
    /\ voice = "encoder_get"
    /\ \/ /\ voice' = "encoder_out" /\ Lend("encoder")
          /\ hidden' = context["encoder"].out /\ UNCHANGED output_data
       \/ Fails
    /\ UNCHANGED <<ready, inits, sentence, sounds>>

\* middle_process stands between the two; its results are those of the encoder.
EncoderOut ==
    /\ voice = "encoder_out"
    /\ Continues("shapes") /\ TakeBack("encoder", 1)
    /\ UNCHANGED <<ready, inits, sentence, sounds>>

\* inference_decoder_model: six tensors are given their dimensions.
DecoderShapes ==
    /\ voice = "shapes"
    /\ \/ Continues("decoder_set") /\ UNCHANGED rknnVars
       \/ Fails
    /\ UNCHANGED <<ready, inits, sentence, sounds>>

DecoderSet ==
    /\ voice = "decoder_set"
    /\ \/ Continues("decoder_run") /\ SetInputs("decoder", hidden)
       \/ Fails
    /\ UNCHANGED <<ready, inits, sentence, sounds>>

\* Mutation: a run that fails is not noticed.
DecoderRunUnchecked ==
    /\ voice = "decoder_run"
    /\ Continues("decoder_get")
    /\ RunContext("decoder") \/ UNCHANGED rknnVars
    /\ UNCHANGED <<ready, inits, sentence, sounds>>

DecoderRun ==
    /\ voice = "decoder_run"
    /\ \/ Continues("decoder_get") /\ RunContext("decoder")
       \/ Fails
    /\ UNCHANGED <<ready, inits, sentence, sounds>>

DecoderGet ==
    /\ voice = "decoder_get"
    /\ \/ /\ voice' = "decoder_out" /\ Lend("decoder")
          /\ output_data' = context["decoder"].out /\ UNCHANGED hidden
       \/ Fails
    /\ UNCHANGED <<ready, inits, sentence, sounds>>

\* The outputs are released and the samples go to on_chunk, unless the sentence lasts no frame.
EmitSound ==
    /\ voice = "decoder_out"
    /\ Ends /\ TakeBack("decoder", 1)
    /\ \/ sounds' = Append(sounds, [of |-> sentence, made |-> output_data])
       \/ UNCHANGED sounds
    /\ UNCHANGED <<ready, inits, sentence>>

MeloEngineNext ==
    \/ InitSession \/ ShutdownSession \/ NextSentence
    \/ EncoderSet \/ EncoderRun \/ EncoderGet \/ EncoderOut
    \/ DecoderShapes \/ DecoderSet \/ DecoderRun \/ DecoderGet \/ EmitSound
=============================================================================
