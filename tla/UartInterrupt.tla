--------------------------- MODULE UartInterrupt ---------------------------
(***************************************************************************)
(* The interrupt-driven UART receiver of the TTC link                      *)
(* (drivers/uart_interrupt/uart_interrupt.c): the globals and USCI_A0_ISR, *)
(* which finds the frames in the byte stream by the identification byte in *)
(* front of them.                                                          *)
(***************************************************************************)
EXTENDS Frames

VARIABLES uart_rx_buffer, uart_rx_data_size, uart_rx_buffer_index

uartVars == <<uart_rx_buffer, uart_rx_data_size, uart_rx_buffer_index>>

UART_RX_BUFFER_MAX_SIZE == 16
WRITE_COMMAND_MAX_SIZE  == 7
READ_COMMAND_MAX_SIZE   == 4

UartTypeOK ==
    /\ uart_rx_buffer \in [0..UART_RX_BUFFER_MAX_SIZE - 1 -> Byte]
    /\ uart_rx_data_size \in {0, READ_COMMAND_MAX_SIZE, WRITE_COMMAND_MAX_SIZE}
    /\ uart_rx_buffer_index \in 0..WRITE_COMMAND_MAX_SIZE + 1

UartInit ==
    /\ uart_rx_buffer = [i \in 0..UART_RX_BUFFER_MAX_SIZE - 1 |-> ZeroByte]
    /\ uart_rx_data_size = 0
    /\ uart_rx_buffer_index = 0

(***************************************************************************)
(* One received byte.  The index is compared before it is incremented and  *)
(* with >, so the handler takes two bytes more than the size it reports    *)
(* before it gives the command to the server.                              *)
(***************************************************************************)
FirstByte(b) == IF uart_rx_buffer_index = 0 THEN b ELSE uart_rx_buffer[0]

Completes(b) ==
    \/ FirstByte(b) = WRITE_COMMAND_ID
         /\ uart_rx_buffer_index > WRITE_COMMAND_MAX_SIZE
    \/ FirstByte(b) = READ_COMMAND_ID
         /\ uart_rx_buffer_index > READ_COMMAND_MAX_SIZE

\* Mutant: the index is not reset when a frame is complete.
BugIsrByte(b) ==
    /\ uart_rx_buffer' = [uart_rx_buffer EXCEPT ![uart_rx_buffer_index] = b]
    /\ uart_rx_buffer_index' = uart_rx_buffer_index + 1
    /\ uart_rx_data_size' = IF Completes(b) THEN 7 ELSE uart_rx_data_size

IsrByte(b) ==
    /\ uart_rx_buffer' = [uart_rx_buffer EXCEPT ![uart_rx_buffer_index] = b]
    /\ IF Completes(b)
       THEN /\ uart_rx_buffer_index' = 0
            /\ uart_rx_data_size' = IF FirstByte(b) = WRITE_COMMAND_ID
                                    THEN 7 ELSE 4
       ELSE /\ uart_rx_buffer_index' =
                  IF FirstByte(b) \in {WRITE_COMMAND_ID, READ_COMMAND_ID}
                  THEN uart_rx_buffer_index + 1 ELSE uart_rx_buffer_index
            /\ UNCHANGED uart_rx_data_size
=============================================================================
