-------------------------- MODULE MCWriteHddThread --------------------------
(* Instances of WriteHddThread for TLC.                                    *)
EXTENDS WriteHddThread

\* Both formats on the first channel, the default one on the second.
MCTwoChannels == <<{"BIT", "RAW"}, {"BIT"}>>

\* One channel, the default format.
MCOneChannel == <<{"BIT"}>>
=============================================================================
