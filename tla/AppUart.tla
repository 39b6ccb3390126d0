------------------------------ MODULE AppUart ------------------------------
(***************************************************************************)
(* app_uart.c, the UART module without a FIFO, on top of nrf_drv_uart      *)
(* (external): the driver fills rx_buffer once per nrf_drv_uart_rx and     *)
(* then calls uart_event_handler; it refuses a second nrf_drv_uart_tx as   *)
(* busy.  Bytes are named by their rank, received and sent; 0 is an error. *)
(***************************************************************************)
EXTENDS Naturals, Sequences

CONSTANT MaxUartBytes   \* bound on the bytes received and on those put

VARIABLE appUart

appUartVars == <<appUart>>

UartOff ==
  [open |-> FALSE, rx_done |-> FALSE, rx_buffer |-> 0, tx_buffer |-> 0,
   armed |-> FALSE,      \* the driver waits for a byte
   event |-> "none",     \* the event the driver is about to report
   pc |-> "idle",        \* where uart_event_handler stands
   value |-> 0,          \* app_uart_event: data.value, 0 an error
   dma |-> FALSE,        \* the driver uses EasyDMA
   busy |-> "no",        \* the driver sends; "started" before DMA reads the byte
   came |-> 0,           \* history: number of bytes and errors, for ever
   heard |-> <<>>,       \* history: the bytes and errors, since the start
   told |-> <<>>,        \* history: those m_event_handler was told of
   emptied |-> 0,        \* history: how often it was told APP_UART_TX_EMPTY
   puts |-> 0,           \* history: number of calls of app_uart_put
   taken |-> <<>>,       \* history: the bytes put with NRF_SUCCESS
   wire |-> <<>>]        \* history: the bytes the driver sent

AppUartInit == appUart = UartOff

app_uart_init ==
  /\ ~appUart.open
  /\ \E dma \in BOOLEAN :
       appUart' = [UartOff EXCEPT !.open = TRUE, !.armed = TRUE, !.dma = dma,
                                  !.came = appUart.came, !.puts = appUart.puts]

app_uart_close ==
  /\ appUart.open /\ appUart.pc = "idle"
  /\ appUart' = [appUart EXCEPT !.open = FALSE, !.armed = FALSE,
                             !.event = "none", !.busy = "no"]

(* The line: a byte, or an error, for which the driver stops receiving.    *)
ByteIn ==
  /\ appUart.armed /\ appUart.event = "none" /\ appUart.came < MaxUartBytes
  /\ LET byte == appUart.came + 1
     IN  appUart' = [appUart EXCEPT !.armed = FALSE, !.event = "rx",
                       !.came = byte, !.heard = Append(@, byte), !.rx_buffer = byte]

LineError ==
  /\ appUart.armed /\ appUart.event = "none" /\ appUart.came < MaxUartBytes
  /\ appUart' = [appUart EXCEPT !.armed = FALSE, !.event = "error",
                                !.came = @ + 1, !.heard = Append(@, 0)]

(* What the driver is about to report.                                     *)
Reported == IF appUart.event = "error" THEN 0 ELSE appUart.rx_buffer

(* uart_event_handler: what is reported is copied, then the driver is      *)
(* given the buffer again, then the application is told.                   *)
TakeValue ==
  /\ appUart.pc = "idle" /\ appUart.event # "none"
  /\ appUart' = [appUart EXCEPT !.pc = appUart.event, !.event = "none",
                                !.value = Reported]

Rearm ==
  /\ appUart.pc \in {"rx", "error"}
  /\ appUart' = [appUart EXCEPT !.armed = TRUE, !.pc = "tell",
                                !.rx_done = @ \/ appUart.pc = "rx"]

(* Bug: the byte is copied when the application is told.                   *)
TellLate ==
  /\ appUart.pc = "tell"
  /\ appUart' = [appUart EXCEPT !.pc = "idle",
       !.told = Append(@, IF appUart.value = 0 THEN 0 ELSE appUart.rx_buffer)]
Tell ==
  /\ appUart.pc = "tell"
  /\ appUart' = [appUart EXCEPT !.pc = "idle", !.told = Append(@, appUart.value)]

(* nrf_drv_uart_tx: without DMA the byte is copied at once.                *)
ReadByte(u) == [u EXCEPT !.busy = "sending", !.wire = Append(@, u.tx_buffer)]
Start(u) == IF u.dma THEN [u EXCEPT !.busy = "started"] ELSE ReadByte(u)

(* app_uart_put: tx_buffer is overwritten before the driver is asked.      *)
app_uart_put ==
  /\ appUart.open /\ appUart.pc = "idle" /\ appUart.puts < MaxUartBytes
  /\ LET byte == appUart.puts + 1
         put == [appUart EXCEPT !.puts = byte, !.tx_buffer = byte]
     IN  appUart' = (IF appUart.busy # "no" THEN put
                     ELSE Start([put EXCEPT !.taken = Append(@, byte)]))

DmaReads == appUart.busy = "started" /\ appUart' = ReadByte(appUart)

(* The byte is out; uart_event_handler, which the same interrupt runs,     *)
(* tells the application of it.                                            *)
TxDone ==
  /\ appUart.busy = "sending" /\ appUart.pc = "idle"
  /\ appUart' = [appUart EXCEPT !.busy = "no", !.emptied = @ + 1]

(* app_uart_get: 0 for NRF_ERROR_NOT_FOUND.                                *)
app_uart_get == IF appUart.rx_done THEN appUart.rx_buffer ELSE 0

AppUartCpu == TakeValue \/ Rearm \/ Tell

AppUartNext ==
  \/ app_uart_init \/ app_uart_close \/ app_uart_put
  \/ ByteIn \/ LineError \/ DmaReads \/ TxDone
  \/ AppUartCpu

-----------------------------------------------------------------------------
(* A byte or an error in the handler's hand, and one not yet reported.     *)
WithHand(events) ==
  IF appUart.pc = "idle" THEN events ELSE Append(events, appUart.value)
WithBuffer(events) ==
  IF appUart.event = "none" THEN events ELSE Append(events, Reported)

(* Every byte and every error the driver has since app_uart_init is told   *)
(* to the application exactly once, in order and with its value, though    *)
(* the buffer is given away before: what is not yet told is in hand or in  *)
(* the buffer.  A byte app_uart_get finds was received since then, and is  *)
(* not older than one already told.  APP_UART_TX_EMPTY is told once for    *)
(* every byte that is out.  Without DMA the bytes taken are the bytes      *)
(* sent; with it, a put that is refused may still replace the byte.        *)
UartRight ==
  /\ appUart.open => appUart.heard = WithBuffer(WithHand(appUart.told))
  /\ app_uart_get # 0 =>
       /\ \E k \in DOMAIN appUart.heard : appUart.heard[k] = app_uart_get
       /\ \A k \in DOMAIN appUart.told : appUart.told[k] <= app_uart_get
  /\ appUart.open => appUart.emptied =
       Len(appUart.wire) - (IF appUart.busy = "sending" THEN 1 ELSE 0)
  /\ ~appUart.dma => appUart.wire = appUart.taken

(* It goes on receiving after a byte and after an error.                   *)
StaysOpen == []<>(appUart.armed \/ ~appUart.open \/ appUart.came = MaxUartBytes)
=============================================================================
