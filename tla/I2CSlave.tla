------------------------------ MODULE I2CSlave ------------------------------
(***************************************************************************)
(* The I2C slave driver (drivers/i2c_slave/i2c_slave.c): the globals of    *)
(* the driver, the three cases of the interrupt handler USCI_B2_ISR, and   *)
(* the stores i2c_slave_write makes one after the other.  The port is the  *)
(* one obdh_init opened, so the invalid-port returns do not occur.         *)
(***************************************************************************)
EXTENDS Frames

VARIABLES
    i2c_rx_buffer, i2c_rx_data_size, i2c_rx_buffer_index,
    i2c_tx_buffer, i2c_tx_buffer_data_size, i2c_tx_buffer_index,
    i2c_slave_status

rxVars  == <<i2c_rx_buffer, i2c_rx_data_size, i2c_rx_buffer_index>>
txVars  == <<i2c_tx_buffer, i2c_tx_buffer_data_size, i2c_tx_buffer_index>>
i2cVars == <<rxVars, txVars, i2c_slave_status>>

I2C_RX_BUFFER_MAX_SIZE == 16
I2C_TX_BUFFER_MAX_SIZE == 16

I2cTypeOK ==
    /\ i2c_rx_buffer \in [0..I2C_RX_BUFFER_MAX_SIZE - 1 -> Byte]
    /\ i2c_rx_data_size \in 0..I2C_RX_BUFFER_MAX_SIZE - 1
    /\ i2c_rx_buffer_index \in 0..I2C_RX_BUFFER_MAX_SIZE - 1
    /\ i2c_tx_buffer \in [0..I2C_TX_BUFFER_MAX_SIZE - 1 -> Byte]
    /\ i2c_tx_buffer_data_size \in {0, OBDH_COMMAND_WRITE_SIZE}
    /\ i2c_tx_buffer_index \in U8
    /\ i2c_slave_status \in {"IDLE", "RX", "TX"}

I2cInit ==
    /\ i2c_rx_buffer = [i \in 0..I2C_RX_BUFFER_MAX_SIZE - 1 |-> ZeroByte]
    /\ i2c_rx_data_size = 0
    /\ i2c_rx_buffer_index = 0
    /\ i2c_tx_buffer = [i \in 0..I2C_TX_BUFFER_MAX_SIZE - 1 |-> ZeroByte]
    /\ i2c_tx_buffer_data_size = 0
    /\ i2c_tx_buffer_index = 0
    /\ i2c_slave_status = "IDLE"

\* USCI_I2C_UCRXIFG: the master wrote byte b.
IsrReceive(b) ==
    /\ i2c_slave_status' = "RX"
    /\ i2c_rx_buffer' = [i2c_rx_buffer EXCEPT ![i2c_rx_buffer_index] = b]
    /\ i2c_rx_buffer_index' = (i2c_rx_buffer_index + 1) % I2C_RX_BUFFER_MAX_SIZE
    /\ UNCHANGED <<i2c_rx_data_size, txVars>>

\* The byte the handler puts on the bus.  With nothing ever written the size
\* is 0 and the index is not wrapped until it overflows: past the array the
\* byte is whatever the memory holds, for which two values stand.
TransmittedByte ==
    IF i2c_tx_buffer_index < I2C_TX_BUFFER_MAX_SIZE
    THEN {i2c_tx_buffer[i2c_tx_buffer_index]}
    ELSE {ZeroByte, 255}

\* USCI_I2C_UCTXIFG: the master asks for a byte.
IsrTransmit ==
    LET next == (i2c_tx_buffer_index + 1) % 256
    IN  /\ i2c_slave_status' = "TX"
        /\ i2c_tx_buffer_index' =
               IF next = i2c_tx_buffer_data_size THEN 0 ELSE next
        /\ UNCHANGED <<rxVars, i2c_tx_buffer, i2c_tx_buffer_data_size>>

\* Mutant: the index of the next byte received is not set back.
BugIsrStop ==
    /\ i2c_rx_data_size' = i2c_rx_buffer_index
    /\ i2c_slave_status' = "IDLE"
    /\ UNCHANGED <<i2c_rx_buffer, i2c_rx_buffer_index, txVars>>

\* USCI_I2C_UCSTPIFG: the number of bytes received becomes readable, also
\* after a transaction that only transmitted.
IsrStop ==
    /\ i2c_rx_data_size' = i2c_rx_buffer_index
    /\ i2c_rx_buffer_index' = 0
    /\ i2c_slave_status' = "IDLE"
    /\ UNCHANGED <<i2c_rx_buffer, txVars>>

\* Mutant: the server is notified after the wrong kind of transaction.
BugStopNotifies == i2c_slave_status = "TX"

\* The condition under which IsrStop calls i2c_slave_notify_from_i2c_rx_isr.
StopNotifies == i2c_slave_status = "RX"

(***************************************************************************)
(* i2c_slave_write(data, len), called by a task: a memcpy, the size, the   *)
(* index.  The interrupt handler may run between any two of these stores.  *)
(***************************************************************************)
StoreTxByte(k, b) ==
    /\ i2c_tx_buffer' = [i2c_tx_buffer EXCEPT ![k] = b]
    /\ UNCHANGED <<rxVars, i2c_tx_buffer_data_size, i2c_tx_buffer_index,
                   i2c_slave_status>>

StoreTxSize(len) ==
    /\ i2c_tx_buffer_data_size' = len
    /\ UNCHANGED <<rxVars, i2c_tx_buffer, i2c_tx_buffer_index, i2c_slave_status>>

ResetTxIndex ==
    /\ i2c_tx_buffer_index' = 0
    /\ UNCHANGED <<rxVars, i2c_tx_buffer, i2c_tx_buffer_data_size,
                   i2c_slave_status>>
=============================================================================
