----------------------------- MODULE MCSampler ------------------------------
(* Four tokens, logits two nats apart, a window of three and room for three *)
(* candidates: rows inside the window, beyond it and over the cap.          *)
EXTENDS Sampler

P(temperature, top_k, min_p, top_p, repetition, frequency, presence) ==
    [temperature |-> temperature, top_k |-> top_k, min_p |-> min_p, top_p |-> top_p,
     repetition |-> repetition, frequency |-> frequency, presence |-> presence, full |-> FALSE]

One == <<1, 1>>
None == <<0, 1>>
Half == <<1, 2>>

MCParams ==
    { P(0, 0, None, One, One, 0, 0), P(0, 0, None, One, One, 1, 0), P(0, 0, None, One, <<2, 1>>, 0, 0),
      P(1, 0, None, One, One, 0, 0), P(2, 0, None, One, One, 1, 1),
      P(1, 2, None, One, One, 0, 0), P(1, 2, None, One, One, 1, 0), P(2, 2, <<1, 4>>, One, One, 0, 1),
      P(1, 0, None, Half, One, 0, 0), P(1, 2, None, <<3, 4>>, One, 0, 0), P(1, 0, <<1, 4>>, One, One, 0, 0),
      P(1, 2, None, One, One, -1, 0), P(2, 2, <<1, 4>>, Half, One, 0, 0),
      [P(0, 0, None, One, One, 0, 0) EXCEPT !.full = TRUE] }

MCVocab == 0..3
MCLogits == {-4, -2, 0, 2}
=============================================================================
