---- MODULE MCJobHandler ----
EXTENDS JobHandler

(* A malformed and odd but valid blob with a target longer than a word,    *)
(* and a blob well formed but too short with a malformed, odd, short one.  *)
MCJobs == {[job_id |-> "a", blob |-> <<1, 1, Blank, 1, 1, Junk, 1>>,
            target |-> <<0, 0, 1, 1, 0, 1, 1>>],
           [job_id |-> "b", blob |-> <<0, 1, 1, 0>>, target |-> <<Minus, 1, 1>>]}

(* With significands of three bits, 64 over 3 comes out below its integer  *)
(* part and 64 over 7/2 above.                                             *)
MCDifficulties == {<<0, 1>>, <<1, 2>>, <<3, 1>>}
MCInitial == <<7, 2>>
MCExponents == -2..3
====
