------------------------------- MODULE MCRtIpc -------------------------------
EXTENDS RtIpc

\* The procedures of rtipc_init and what the client passes to them.
MCProcs == <<"rts_set_mode", "rts_get_state", "rts_lock_channel",
             "rts_adjust_phase", "rts_enable_ptracker", "rts_debug_command">>
MCArgs == [rts_set_mode |-> {"gm_external", "gm_freerunning", "bc", "disabled",
                            "other"},
           rts_get_state |-> {0},
           rts_lock_channel |-> {1},
           rts_adjust_phase |-> {<<1, 5>>},
           rts_enable_ptracker |-> {<<1, TRUE>>},
           no_such_proc |-> {0}]
=============================================================================
